---- MODULE Spec2Model ----
(***************************************************************************)
(* Model of the vidzly video-creation pipeline:                            *)
(*   - video_script_generator  (tools/video_script_generator.py)           *)
(*   - video_composer          (tools/video_composer.py)                   *)
(*   - the batch orchestrator  (workflow_ui.py, workflow_agent.py)         *)
(*   - video_clipper           (tools/video_clipper.py)                    *)
(*   - music_selector, video_summarizer, thumbnail_generator,              *)
(*     calculate_frame_quality and subtitle_creator (tools/)               *)
(*                                                                         *)
(* All times are integers in milliseconds: 5.0 s is 5000, 0.1 s is 100,    *)
(* and round(x, 2) rounds to a multiple of 10.                             *)
(***************************************************************************)
EXTENDS Integers, Sequences, FiniteSets, TLC

VARIABLES
    \* ---- video_script_generator ----
    summaries_list,     \* parsed video summaries (sequence of summary records)
    sg_target,          \* target_duration argument
    api_key,            \* whether GOOGLE_API_KEY is set
    sg_script,          \* the local `script` being validated / rescaled
    total_scene_duration,       \* total_scene_duration computed at line 379
    sg_pc,              \* position inside video_script_generator
    sg_result,          \* what the call produced: a script or an exception
    \* ---- video_composer ----
    video_clips,        \* real duration of each source clip, in list order
    vc_script,          \* the caller's script object as it was when the call began
    vc_is_str,          \* TRUE if the script was passed as a JSON string
    scenes,             \* script_data["scenes"], the list the loop works on
    music_path,         \* TRUE if a music file was supplied and exists
    thumbnail_path,     \* TRUE if a thumbnail image was supplied and exists
    vc_pc,              \* position inside video_composer
    vc_i,               \* index of the scene / clip the current loop is at
    vc_passed,          \* the (start, end) ranges handed to video_clipper
    clip_paths,         \* segments extracted so far
    vc_files,           \* segment files present on disk
    vc_handles,         \* every clip handle opened -> number of close() calls
    video_clips_loaded, \* handles of the loaded segment clips
    final_video,        \* handle bound to the local final_video
    audio_clip,         \* handle bound to the local audio_clip
    vc_starts,          \* timeline start of every scene in the composed clip
    vc_failed,          \* steps of this invocation that failed
    vc_result,          \* what the call produced: an output path or an exception
    \* ---- orchestrator (run_workflow / agent_workflow) ----
    wf_variant,         \* "adk": run_workflow -> agent_workflow; "fallback": _fallback_agent_workflow;
                        \* "stream": the generator agent_workflow of workflow.py
    wf_videos,          \* number of source videos supplied
    wf_generate_music,  \* generate_music flag
    wf_api_key,         \* whether GOOGLE_API_KEY is set
    wf_pc,              \* stage the run is at
    wf_i,               \* index of the video being analyzed
    progress_messages,  \* the progress log
    wf_trace,           \* stage executions, in the order they ran
    video_summaries,    \* the summaries collected, in video order
    wf_script,          \* TRUE once the script has been generated
    wf_music_path,      \* music_path local: "none" or "music"
    wf_thumbnail_path,  \* thumbnail_path local: "none" or "thumbnail"
    wf_final_video_path,\* final_video_path local: "none", "agent", "composer",
                        \* or, from the last message, "existing" or "missing"
    wf_failures,        \* stages whose execution failed during the run
    wf_cause,           \* the stage whose failure ended the run, or "none"
    wf_compose_args,    \* music_path / thumbnail_image passed to video_composer
    wf_summary_json,    \* summary_json local of the streaming orchestrator: "" or its content
    wf_ret,             \* what the caller received
    \* ---- video_clipper ----
    cl_start_time,      \* start_time argument
    cl_end_time,        \* end_time argument (reassigned by the clamp at line 56)
    cl_video_duration,  \* real duration of the source file
    cl_output_path,     \* TRUE if the caller supplied output_path
    cl_pc,              \* position inside video_clipper
    cl_handles,         \* every clip handle opened -> number of close() calls
    cl_files,           \* files written
    cl_result,          \* what the call produced: a path or an exception
    \* ---- default artifact paths of two pipeline runs sharing a temp directory ----
    ar_pid,             \* run -> os.getpid() of the process executing it
    ar_source,          \* run -> basename of the run's source video
    ar_range,           \* run -> (start, end) its scene resolves to
    ar_clock,           \* int(time.time())
    ar_pc,              \* run -> the tool it calls next
    ar_paths,           \* run -> artifact paths it has written
    \* ---- music_selector ----
    ms_target_duration, \* target_duration argument, as passed by the caller
    ms_api_key,         \* whether ELEVENLABS_API_KEY is set
    api_params,         \* keyword arguments built for text_to_sound_effects.convert
    ms_pc,              \* position inside music_selector
    ms_result,          \* "none", "path", or the step that raised
    \* ---- video_summarizer ----
    vs_duration,        \* frame_count / video_fps, or 0 when video_fps is not positive
    vs_api_key,         \* whether GOOGLE_API_KEY is set
    detected_moods,     \* mood keywords found in the collaborator's text
    vs_pc,              \* position inside video_summarizer
    vs_result,          \* the object whose JSON is returned
    \* ---- thumbnail_generator ----
    tg_calls,           \* generate_content calls made, in order
    tg_pc,              \* position inside thumbnail_generator
    tg_result,          \* "none", "path" or "raised"
    \* ---- calculate_frame_quality ----
    fq_frame,           \* sharpness, contrast and brightness measured on the frame
    quality_score,      \* the returned score, in units of 1/110000
    fq_pc,              \* "idle" or "scored"
    \* ---- subtitle_creator ----
    sc_subtitles,       \* transcript_data["subtitles"]
    sc_video_duration,  \* video.duration
    sc_handles,         \* every clip handle opened -> number of close() calls
    sc_pc,              \* position inside subtitle_creator
    sc_result           \* "none", "path", or the check that raised

sgVars == <<summaries_list, sg_target, api_key, sg_script, total_scene_duration, sg_pc, sg_result>>

vcVars == <<video_clips, vc_script, vc_is_str, scenes, music_path, thumbnail_path,
            vc_pc, vc_i, vc_passed, clip_paths, vc_files, vc_handles,
            video_clips_loaded, final_video, audio_clip, vc_starts, vc_failed,
            vc_result>>

wfVars == <<wf_variant, wf_videos, wf_generate_music, wf_api_key, wf_pc, wf_i,
            progress_messages, wf_trace, video_summaries, wf_script, wf_music_path,
            wf_thumbnail_path, wf_final_video_path, wf_failures, wf_cause,
            wf_compose_args, wf_summary_json, wf_ret>>

clVars == <<cl_start_time, cl_end_time, cl_video_duration, cl_output_path, cl_pc,
            cl_handles, cl_files, cl_result>>

\* the components modelled after the planner, the composer and the orchestrator
arVars == <<ar_pid, ar_source, ar_range, ar_clock, ar_pc, ar_paths>>

msVars == <<ms_target_duration, ms_api_key, api_params, ms_pc, ms_result>>
vsVars == <<vs_duration, vs_api_key, detected_moods, vs_pc, vs_result>>
tgVars == <<tg_calls, tg_pc, tg_result>>
fqVars == <<fq_frame, quality_score, fq_pc>>
scVars == <<sc_subtitles, sc_video_duration, sc_handles, sc_pc, sc_result>>

\* the single-call tools
tlVars == <<msVars, vsVars, tgVars, fqVars, scVars>>

restVars == <<clVars, arVars, tlVars>>

vars == <<sgVars, vcVars, wfVars, restVars>>

\* ---------------------------------------------------------------------------
\* Bounds
\* ---------------------------------------------------------------------------
MaxPlanScenes == 2
MaxSummaries == 2
MaxScenes == 2
MaxVideos == 2
MaxClock == 1
MaxSubtitles == 2

\* ---------------------------------------------------------------------------
\* Generic helpers
\* ---------------------------------------------------------------------------
Min(a, b) == IF a <= b THEN a ELSE b
Max(a, b) == IF a >= b THEN a ELSE b
Abs(a) == IF a >= 0 THEN a ELSE -a

SeqsUpTo(S, lo, hi) == UNION { [1..n -> S] : n \in lo..hi }

RECURSIVE SumSeq(_)
SumSeq(s) == IF s = <<>> THEN 0 ELSE Head(s) + SumSeq(Tail(s))

\* nearest integer to n/d (n >= 0, d > 0), ties to even, as Python's round
RoundHalfEven(n, d) ==
    LET q == n \div d
        r == n % d
    IN  IF 2 * r < d THEN q
        ELSE IF 2 * r > d THEN q + 1
        ELSE IF q % 2 = 0 THEN q ELSE q + 1

\* round(n/d, 2) for a time n/d given in milliseconds: a multiple of 10 ms
Round2(n, d) == 10 * RoundHalfEven(n, 10 * d)

\* ===========================================================================
\* video_script_generator
\* ===========================================================================

\* drift tolerance of the rescale pass, 5.0 s
Tolerance == 5000

\* A video summary as the planner reads it: summary.get("duration", ...) and
\* summary.get("mood_tags", ...).
Summary(hasDuration, duration, mood_tags) ==
    [hasDuration |-> hasDuration, duration |-> duration, mood_tags |-> mood_tags]

SummarySet ==
    { Summary(FALSE, 0, <<>>),
      Summary(TRUE, 0, <<"calm">>),
      Summary(TRUE, 10000, <<"calm">>),
      Summary(TRUE, 40000, <<>>) }

TargetSet == {0, 10000, 30000}

\* A scene of the collaborator's JSON: each of duration, start_time and
\* end_time may be absent ("duration" in scene, "start_time" in scene, ...).
SceneRec(hasDuration, duration, hasStart, start_time, hasEnd, end_time) ==
    [hasDuration |-> hasDuration, duration |-> duration,
     hasStart |-> hasStart, start_time |-> start_time,
     hasEnd |-> hasEnd, end_time |-> end_time]

PlannerSceneSet ==
    { SceneRec(TRUE, d, TRUE, s, TRUE, s + d) : d \in {0, 3333, 20000}, s \in {0, 1234} }
    \cup { SceneRec(FALSE, 0, TRUE, 0, TRUE, 5000),
           SceneRec(TRUE, 20000, TRUE, 0, FALSE, 0),
           SceneRec(TRUE, 20000, FALSE, 0, FALSE, 0) }

OptionalFields == {"music", "pacing", "narrative_structure", "visual_style"}

ScriptRec(total_duration, scs, fields) ==
    [total_duration |-> total_duration, scenes |-> scs, fields |-> fields]

NoScript == ScriptRec(0, <<>>, {})

\* What the AI collaborator can do on generate_content / json.loads:
\*   "raise"        the call raises (network, quota, ...)
\*   "unparsable"   response text is not JSON (json.JSONDecodeError)
\*   "notDict"      JSON that is not an object
\*   "noScenes"     an object without "scenes"
\*   "emptyScenes"  "scenes" is not a list or is an empty list
\*   "script"       an object with a non-empty scenes list
ResponseSet ==
    { [kind |-> k, hasTotal |-> FALSE, script |-> NoScript] :
        k \in {"raise", "unparsable", "notDict", "noScenes", "emptyScenes"} }
    \cup
    { [kind |-> "script", hasTotal |-> ht, script |-> ScriptRec(IF ht THEN 30000 ELSE 0, sc, f)] :
        ht \in BOOLEAN,
        sc \in SeqsUpTo(PlannerSceneSet, 1, MaxPlanScenes),
        f \in {{}, OptionalFields} }

SgResult(kind, script) == [kind |-> kind, script |-> script]

\* the one-scene fallback script (lines 238-267 and 427-460)
FallbackScript(summary, target) ==
    LET duration == IF summary.hasDuration THEN summary.duration ELSE target
        clip_duration == Min(duration, target)
    IN  ScriptRec(clip_duration,
                  << SceneRec(TRUE, clip_duration, TRUE, 0, TRUE, clip_duration) >>,
                  {"music", "pacing", "narrative_structure"})

\* sum(scene.get("duration", 0) for scene in script["scenes"])
TotalSceneDuration(scs) ==
    SumSeq([i \in 1..Len(scs) |-> IF scs[i].hasDuration THEN scs[i].duration ELSE 0])

\* RescaleScene with the end_time recomputation left out
RescaleScene_KeepEnd(scene, target, total) ==
    [scene EXCEPT !.duration = IF scene.hasDuration
                                THEN Round2(scene.duration * target, total)
                                ELSE @]

\* The body of the rescale loop for one scene (lines 387-393).
RescaleScene(scene, target, total) ==
    LET d == IF scene.hasDuration THEN Round2(scene.duration * target, total)
             ELSE scene.duration
    IN  [scene EXCEPT !.duration = d,
                      !.end_time = IF scene.hasStart /\ scene.hasEnd
                                   THEN Round2(scene.start_time + d, 1)
                                   ELSE @]

\* scene["duration"] at line 392 raises KeyError for a scene that has
\* start_time and end_time but no duration
RescaleRaises(scs) ==
    \E i \in 1..Len(scs) :
        scs[i].hasStart /\ scs[i].hasEnd /\ ~scs[i].hasDuration

InitSG ==
    /\ summaries_list \in SeqsUpTo(SummarySet, 0, MaxSummaries)
    /\ sg_target \in TargetSet
    /\ api_key \in BOOLEAN
    /\ sg_script = NoScript
    /\ total_scene_duration = 0
    /\ sg_pc = "start"
    /\ sg_result = SgResult("none", NoScript)

SgRaise ==
    /\ sg_pc' = "done"
    /\ sg_result' = SgResult("raised", NoScript)
    /\ UNCHANGED <<sg_script, total_scene_duration>>

SgReturn(s) ==
    /\ sg_pc' = "done"
    /\ sg_result' = SgResult("script", s)
    /\ UNCHANGED <<sg_script, total_scene_duration>>

\* lines 227-232: empty summaries or target_duration <= 0 raise ValueError,
\* which the outer `except Exception` re-raises
SG_CheckInputs ==
    /\ UNCHANGED <<vcVars, wfVars, restVars>>
    /\ sg_pc = "start"
    /\ IF summaries_list = <<>> \/ sg_target <= 0
       THEN SgRaise
       ELSE /\ sg_pc' = "key"
            /\ UNCHANGED <<sg_script, total_scene_duration, sg_result>>
    /\ UNCHANGED <<summaries_list, sg_target, api_key>>

\* lines 235-267: no credential, return the fallback script
SG_NoKeyFallback ==
    /\ UNCHANGED <<vcVars, wfVars, restVars>>
    /\ sg_pc = "key"
    /\ ~api_key
    /\ SgReturn(FallbackScript(summaries_list[1], sg_target))
    /\ UNCHANGED <<summaries_list, sg_target, api_key>>

\* lines 270-376 and the handlers at 422-463: call the collaborator, parse
\* and validate the structure
SG_Generate ==
    /\ UNCHANGED <<vcVars, wfVars, restVars>>
    /\ sg_pc = "key"
    /\ api_key
    /\ \E r \in ResponseSet :
         CASE r.kind = "unparsable" ->
                \* except json.JSONDecodeError: fallback script
                SgReturn(FallbackScript(summaries_list[1], sg_target))
           [] r.kind \in {"raise", "notDict", "noScenes", "emptyScenes"} ->
                \* except Exception: raise Exception("Error generating ...")
                SgRaise
           [] OTHER ->
                /\ sg_script' = [r.script EXCEPT !.total_duration =
                                    IF r.hasTotal THEN @ ELSE sg_target]
                /\ total_scene_duration' = 0
                /\ sg_pc' = "rescale"
                /\ UNCHANGED sg_result
    /\ UNCHANGED <<summaries_list, sg_target, api_key>>

\* lines 378-394: the rescale pass
SG_Rescale ==
    /\ UNCHANGED <<vcVars, wfVars, restVars>>
    /\ sg_pc = "rescale"
    /\ LET total == TotalSceneDuration(sg_script.scenes)
       IN  IF Abs(total - sg_target) > Tolerance
           THEN IF total > 0
                THEN IF RescaleRaises(sg_script.scenes)
                     THEN SgRaise
                     ELSE /\ sg_script' =
                               [sg_script EXCEPT
                                  !.scenes = [i \in 1..Len(@) |->
                                                RescaleScene(@[i], sg_target, total)],
                                  !.total_duration = sg_target]
                          /\ total_scene_duration' = total
                          /\ sg_pc' = "defaults"
                          /\ UNCHANGED sg_result
                ELSE /\ sg_script' = [sg_script EXCEPT !.total_duration = sg_target]
                     /\ total_scene_duration' = total
                     /\ sg_pc' = "defaults"
                     /\ UNCHANGED sg_result
           ELSE /\ total_scene_duration' = total
                /\ sg_pc' = "defaults"
                /\ UNCHANGED <<sg_script, sg_result>>
    /\ UNCHANGED <<summaries_list, sg_target, api_key>>

\* lines 396-420: supply the optional fields and return
SG_Defaults ==
    /\ UNCHANGED <<vcVars, wfVars, restVars>>
    /\ sg_pc = "defaults"
    /\ sg_pc' = "done"
    /\ sg_result' = SgResult("script", [sg_script EXCEPT !.fields = OptionalFields])
    /\ UNCHANGED <<sg_script, total_scene_duration>>
    /\ UNCHANGED <<summaries_list, sg_target, api_key>>


\* ===========================================================================
\* video_composer
\* ===========================================================================

\* transition_duration = 0.5 s (line 330)
TransitionDuration == 500
\* the 0.1 s margin of the timestamp clamp (lines 293, 295)
ClampMargin == 100
\* the "last 2 seconds" of the relocation (line 288)
TailDuration == 2000

\* Source clips are the files /v/a.mp4, /v/b.mp4, ... in list order.
ClipPath == <<"/v/a.mp4", "/v/b.mp4", "/v/c.mp4">>
ClipBasename == <<"a.mp4", "b.mp4", "c.mp4">>

\* the source clip lists tried: real durations in milliseconds
ClipLists == { <<1000>>, <<50>>, <<3000, 1000>>, <<1000, 50>> }

\* A source_video reference: an integer index or a filename string.
IntRef(i) == [isInt |-> TRUE, idx |-> i, name |-> ""]
StrRef(s) == [isInt |-> FALSE, idx |-> 0, name |-> s]

Scene(ref, start_time, hasEnd, end_time, hasDuration, duration, tin, tout) ==
    [source_video |-> ref, start_time |-> start_time,
     hasEnd |-> hasEnd, end_time |-> end_time,
     hasDuration |-> hasDuration, duration |-> duration,
     transition_in |-> tin, transition_out |-> tout]

ComposerSceneSet ==
    { Scene(IntRef(0), 0, TRUE, 1000, TRUE, 1000, "fade", "fade"),
      Scene(IntRef(1), 950, TRUE, 3000, TRUE, 2050, "crossfade", "cut"),
      Scene(IntRef(5), 4000, TRUE, 5000, TRUE, 1000, "cut", "cut"),
      Scene(IntRef(-1), 0, FALSE, 0, TRUE, 300, "crossfade", "crossfade"),
      Scene(StrRef("b.mp4"), 500, FALSE, 0, FALSE, 0, "fade", "crossfade"),
      Scene(StrRef("nonexistent.mp4"), 0, TRUE, 1000, TRUE, 1000, "cut", "cut"),
      Scene(StrRef("/v/a.mp4"), 2000, TRUE, 1500, TRUE, 0, "cut", "fade"),
      Scene(IntRef(0), -500, TRUE, 1000, TRUE, 1500, "cut", "cut"),
      Scene(IntRef(0), 0, FALSE, 0, TRUE, 300, "cut", "crossfade"),
      Scene(IntRef(1), 0, TRUE, 1000, TRUE, 1000, "crossfade", "fade"),
      Scene(IntRef(0), 4000, TRUE, 5000, TRUE, 1000, "fade", "cut"),
      Scene(IntRef(0), 950, TRUE, 3000, TRUE, 2050, "cut", "cut") }

\* Clip handles. A constructor call (VideoFileClip, CompositeVideoClip,
\* concatenate_videoclips, ImageClip, AudioFileClip, concatenate_audioclips)
\* makes a new handle; with_start / with_duration / subclipped / with_audio /
\* with_volume_scaled return a view of the same handle.
Handle(kind, idx) == [kind |-> kind, idx |-> idx]
NoHandle == Handle("none", 0)

Open(h, hs) == hs @@ (h :> 0)
Close(h, hs) == IF h \in DOMAIN hs THEN [hs EXCEPT ![h] = @ + 1] ELSE hs

RECURSIVE CloseAll(_, _)
CloseAll(s, hs) == IF s = <<>> THEN hs ELSE CloseAll(Tail(s), Close(Head(s), hs))

\* ClampRef sending every out-of-range index to the first clip
ClampRef_ToFirst(ref, n) ==
    IF ref.isInt /\ (ref.idx < 0 \/ ref.idx >= n) THEN IntRef(0) ELSE ref

\* lines 262-268: an integer reference is clamped into the list, and the
\* clamped value is written back into the scene
ClampRef(ref, n) ==
    IF ref.isInt
    THEN IF ref.idx < 0 THEN IntRef(0)
         ELSE IF ref.idx >= n THEN IntRef(n - 1)
         ELSE ref
    ELSE ref

\* ResolveSourceVideo falling back to the first clip for an unknown filename
ResolveSourceVideo_FirstClip(ref, n) ==
    IF ref.isInt
    THEN (IF ref.idx < 0 THEN 0 ELSE IF ref.idx >= n THEN n - 1 ELSE ref.idx) + 1
    ELSE IF \E k \in 1..n : ClipBasename[k] = ref.name \/ ClipPath[k] = ref.name
         THEN CHOOSE k \in 1..n :
                 /\ ClipBasename[k] = ref.name \/ ClipPath[k] = ref.name
                 /\ \A j \in 1..(k - 1) :
                       ClipBasename[j] # ref.name /\ ClipPath[j] # ref.name
         ELSE 1

\* resolve_source_video (lines 209-246): the 1-based position of the source
\* clip, or 0 when it raises ValueError
ResolveSourceVideo(ref, n) ==
    IF ref.isInt
    THEN (IF ref.idx < 0 THEN 0 ELSE IF ref.idx >= n THEN n - 1 ELSE ref.idx) + 1
    ELSE IF \E k \in 1..n : ClipBasename[k] = ref.name \/ ClipPath[k] = ref.name
         THEN CHOOSE k \in 1..n :
                 /\ ClipBasename[k] = ref.name \/ ClipPath[k] = ref.name
                 /\ \A j \in 1..(k - 1) :
                       ClipBasename[j] # ref.name /\ ClipPath[j] # ref.name
         ELSE 0

\* lines 278-295: end_time from duration, then the clamp against the real
\* clip duration
ResolveTimes(scene, video_duration) ==
    LET end0 == IF ~scene.hasEnd /\ scene.hasDuration
                THEN scene.start_time + scene.duration
                ELSE IF ~scene.hasEnd THEN video_duration
                ELSE scene.end_time
    IN  IF scene.start_time >= video_duration
        THEN LET clip_duration == Min(TailDuration, video_duration)
             IN  [start |-> Max(0, video_duration - clip_duration),
                  end |-> video_duration]
        ELSE LET s == Max(0, Min(scene.start_time, video_duration - ClampMargin))
             IN  [start |-> s,
                  end |-> Max(s + ClampMargin, Min(end0, video_duration))]

\* video_clipper (video_clipper.py lines 36-70): the segment it writes for
\* (start, end) on a clip of duration D; end is clamped to D, and the file is
\* named after the source basename and the two times
Segment(src, start, end, D) ==
    [src |-> src, start |-> start, end |-> end, duration |-> Min(end, D) - start]

\* lines 334-340
HasCrossfade(scs) ==
    \E k \in 1..Len(scs) :
        scs[k].transition_in = "crossfade" \/ scs[k].transition_out = "crossfade"

\* ClipStart with no overlap for a crossfading scene
ClipStart_NoOverlap(k, scene, current_time) == current_time

\* lines 373-379: clip_start of the k-th scene (k = i + 1)
ClipStart(k, scene, current_time) ==
    IF k > 1 /\ scene.transition_in = "crossfade"
    THEN current_time - TransitionDuration
    ELSE current_time

\* lines 370-384: the absolute timeline of the crossfade composition
RECURSIVE CrossfadeStarts(_, _, _, _)
CrossfadeStarts(durs, scs, k, current_time) ==
    IF k > Len(durs) THEN <<>>
    ELSE LET clip_start == ClipStart(k, scs[k], current_time)
         IN  <<clip_start>> \o CrossfadeStarts(durs, scs, k + 1, clip_start + durs[k])

\* line 389: concatenate_videoclips lays the clips end to end
ConcatStarts(durs) ==
    [k \in 1..Len(durs) |-> SumSeq(SubSeq(durs, 1, k - 1))]

TimelineStarts(durs, scs) ==
    IF HasCrossfade(scs) THEN CrossfadeStarts(durs, scs, 1, 0) ELSE ConcatStarts(durs)

\* final_video.duration (line 392): the end of the clip that ends last
FinalDuration(starts, durs) ==
    LET ends == { starts[k] + durs[k] : k \in 1..Len(starts) }
    IN  CHOOSE e \in ends : \A f \in ends : f <= e

SegmentDurations(paths) == [k \in 1..Len(paths) |-> paths[k].duration]

VcResult(kind, cause) == [kind |-> kind, cause |-> cause]

InitVC ==
    /\ video_clips \in ClipLists
    /\ scenes \in SeqsUpTo(ComposerSceneSet, 0, MaxScenes)
    /\ vc_script = scenes
    /\ vc_is_str \in BOOLEAN
    /\ music_path \in BOOLEAN
    /\ thumbnail_path \in BOOLEAN
    /\ vc_pc = "validate"
    /\ vc_i = 1
    /\ vc_passed = <<>>
    /\ clip_paths = <<>>
    /\ vc_files = {}
    /\ vc_handles = <<>>
    /\ video_clips_loaded = <<>>
    /\ final_video = NoHandle
    /\ audio_clip = NoHandle
    /\ vc_starts = <<>>
    /\ vc_failed = {}
    /\ vc_result = VcResult("none", "none")

vcInputs == <<video_clips, vc_script, vc_is_str, music_path, thumbnail_path>>

\* the `except Exception` handler (lines 539-560): close what the locals
\* video_clips_loaded, final_video and audio_clip hold, then re-raise with
\* the cause's message
VcRaise(cause, hs) ==
    /\ vc_handles' = Close(audio_clip, Close(final_video, CloseAll(video_clips_loaded, hs)))
    /\ vc_failed' = vc_failed \cup {cause}
    /\ vc_result' = VcResult("raised", cause)
    /\ vc_pc' = "raised"

\* lines 134-206: normalise the inputs, check the files, parse the script
VC_Validate ==
    /\ UNCHANGED <<sgVars, wfVars, restVars>>
    /\ vc_pc = "validate"
    /\ \E ok \in BOOLEAN :
         IF ~ok \/ scenes = <<>>
         THEN VcRaise("validate", vc_handles)
         ELSE /\ vc_pc' = "resolve"
              /\ UNCHANGED <<vc_handles, vc_failed, vc_result>>
    /\ UNCHANGED <<vcInputs, scenes, vc_i, vc_passed, clip_paths, vc_files,
                   video_clips_loaded, final_video, audio_clip, vc_starts>>

\* lines 250-301: one iteration of the extraction loop
VC_ResolveScene ==
    /\ UNCHANGED <<sgVars, wfVars, restVars>>
    /\ vc_pc = "resolve"
    /\ LET scene == scenes[vc_i]
           ref == ClampRef(scene.source_video, Len(video_clips))
           src == ResolveSourceVideo(ref, Len(video_clips))
           probe == Handle("probe", vc_i)
       IN  /\ scenes' = [scenes EXCEPT ![vc_i].source_video = ref]
           /\ IF src = 0
              THEN /\ VcRaise("resolve", vc_handles)
                   /\ UNCHANGED <<vc_i, vc_passed, clip_paths, vc_files>>
              ELSE LET D == video_clips[src]
                       r == ResolveTimes(scene, D)
                       hs == Close(probe, Open(probe, vc_handles))
                   IN  /\ vc_passed' = Append(vc_passed,
                                         [scene |-> vc_i, src |-> src, start |-> r.start,
                                          end |-> r.end, D |-> D])
                       /\ \E ok \in BOOLEAN :
                            IF ok
                            THEN /\ clip_paths' = Append(clip_paths, Segment(src, r.start, r.end, D))
                                 /\ vc_files' = vc_files \cup {<<src, r.start, r.end>>}
                                 /\ vc_handles' = hs
                                 /\ vc_i' = IF vc_i = Len(scenes) THEN 1 ELSE vc_i + 1
                                 /\ vc_pc' = IF vc_i = Len(scenes) THEN "load" ELSE "resolve"
                                 /\ UNCHANGED <<vc_failed, vc_result>>
                            ELSE /\ VcRaise("extract", hs)
                                 /\ UNCHANGED <<vc_i, clip_paths, vc_files>>
    /\ UNCHANGED <<vcInputs, video_clips_loaded, final_video, audio_clip, vc_starts>>

\* lines 308-324: one iteration of the loading loop
VC_LoadClip ==
    /\ UNCHANGED <<sgVars, wfVars, restVars>>
    /\ vc_pc = "load"
    /\ \E ok \in BOOLEAN :
         IF ok
         THEN /\ vc_handles' = Open(Handle("segment", vc_i), vc_handles)
              /\ video_clips_loaded' = Append(video_clips_loaded, Handle("segment", vc_i))
              /\ vc_i' = IF vc_i = Len(clip_paths) THEN 1 ELSE vc_i + 1
              /\ vc_pc' = IF vc_i = Len(clip_paths) THEN "compose" ELSE "load"
              /\ UNCHANGED <<vc_failed, vc_result>>
         ELSE /\ VcRaise("load", vc_handles)
              /\ UNCHANGED <<vc_i, video_clips_loaded>>
    /\ UNCHANGED <<vcInputs, scenes, vc_passed, clip_paths, vc_files,
                   final_video, audio_clip, vc_starts>>

\* lines 329-409: transitions, then the crossfade timeline or the
\* concatenation
VC_Compose ==
    /\ UNCHANGED <<sgVars, wfVars, restVars>>
    /\ vc_pc = "compose"
    /\ \E ok \in BOOLEAN :
         IF ok
         THEN /\ vc_starts' = TimelineStarts(SegmentDurations(clip_paths), scenes)
              /\ vc_handles' = Open(Handle("final", 0), vc_handles)
              /\ final_video' = Handle("final", 0)
              /\ vc_pc' = "thumbnail"
              /\ UNCHANGED <<vc_failed, vc_result>>
         ELSE /\ VcRaise("compose", vc_handles)
              /\ UNCHANGED <<vc_starts, final_video>>
    /\ UNCHANGED <<vcInputs, scenes, vc_i, vc_passed, clip_paths, vc_files,
                   video_clips_loaded, audio_clip>>

\* lines 411-460: the thumbnail overlay, inside its own try/except
VC_Thumbnail ==
    /\ UNCHANGED <<sgVars, wfVars, restVars>>
    /\ vc_pc = "thumbnail"
    /\ IF thumbnail_path
       THEN \E outcome \in {"ok", "fail_before_open", "fail_after_open"} :
              CASE outcome = "ok" ->
                     \* ImageClip(...), then final_video is rebound to a new
                     \* CompositeVideoClip([final_video, thumbnail_clip])
                     /\ vc_handles' = Open(Handle("overlay", 0),
                                           Open(Handle("thumbnail", 0), vc_handles))
                     /\ final_video' = Handle("overlay", 0)
                     /\ UNCHANGED vc_failed
                [] outcome = "fail_before_open" ->
                     /\ vc_failed' = vc_failed \cup {"thumbnail"}
                     /\ UNCHANGED <<vc_handles, final_video>>
                [] OTHER ->
                     /\ vc_handles' = Open(Handle("thumbnail", 0), vc_handles)
                     /\ vc_failed' = vc_failed \cup {"thumbnail"}
                     /\ UNCHANGED final_video
       ELSE UNCHANGED <<vc_handles, final_video, vc_failed>>
    /\ vc_pc' = "audio"
    /\ UNCHANGED <<vcInputs, scenes, vc_i, vc_passed, clip_paths, vc_files,
                   video_clips_loaded, audio_clip, vc_starts, vc_result>>

\* lines 462-491: the audio mix, inside its own try/except
VC_Audio ==
    /\ UNCHANGED <<sgVars, wfVars, restVars>>
    /\ vc_pc = "audio"
    /\ IF music_path
       THEN \E outcome \in {"fit", "loop", "open_fail", "fail_after_open"} :
              CASE outcome = "fit" ->
                     \* AudioFileClip, trimmed with subclipped if longer
                     /\ vc_handles' = Open(Handle("audio", 0), vc_handles)
                     /\ audio_clip' = Handle("audio", 0)
                     /\ UNCHANGED vc_failed
                [] outcome = "loop" ->
                     \* audio_clip is rebound to concatenate_audioclips(...)
                     /\ vc_handles' = Open(Handle("audio_loop", 0),
                                           Open(Handle("audio", 0), vc_handles))
                     /\ audio_clip' = Handle("audio_loop", 0)
                     /\ UNCHANGED vc_failed
                [] outcome = "open_fail" ->
                     /\ vc_failed' = vc_failed \cup {"audio"}
                     /\ UNCHANGED <<vc_handles, audio_clip>>
                [] OTHER ->
                     /\ vc_handles' = Open(Handle("audio", 0), vc_handles)
                     /\ audio_clip' = Handle("audio", 0)
                     /\ vc_failed' = vc_failed \cup {"audio"}
       ELSE UNCHANGED <<vc_handles, audio_clip, vc_failed>>
    /\ vc_pc' = "write"
    /\ UNCHANGED <<vcInputs, scenes, vc_i, vc_passed, clip_paths, vc_files,
                   video_clips_loaded, final_video, vc_starts, vc_result>>

\* VC_Write with a render failure swallowed instead of raised
VC_Write_Swallow ==
    /\ UNCHANGED <<sgVars, wfVars, restVars>>
    /\ vc_pc = "write"
    /\ \E ok \in BOOLEAN :
         /\ vc_failed' = IF ok THEN vc_failed ELSE vc_failed \cup {"write"}
         /\ vc_pc' = "cleanup"
         /\ UNCHANGED <<vc_handles, vc_result>>
    /\ UNCHANGED <<vcInputs, scenes, vc_i, vc_passed, clip_paths, vc_files,
                   video_clips_loaded, final_video, audio_clip, vc_starts>>

\* lines 493-514: render the final artifact
VC_Write ==
    /\ UNCHANGED <<sgVars, wfVars, restVars>>
    /\ vc_pc = "write"
    /\ \E ok \in BOOLEAN :
         IF ok
         THEN /\ vc_pc' = "cleanup"
              /\ UNCHANGED <<vc_handles, vc_failed, vc_result>>
         ELSE VcRaise("write", vc_handles)
    /\ UNCHANGED <<vcInputs, scenes, vc_i, vc_passed, clip_paths, vc_files,
                   video_clips_loaded, final_video, audio_clip, vc_starts>>

\* lines 516-537: close the clips, delete the segment files, return the path
VC_Cleanup ==
    /\ UNCHANGED <<sgVars, wfVars, restVars>>
    /\ vc_pc = "cleanup"
    /\ vc_handles' = (IF music_path THEN Close(audio_clip, CloseAll(video_clips_loaded, Close(final_video, vc_handles)))
                      ELSE CloseAll(video_clips_loaded, Close(final_video, vc_handles)))
    /\ vc_files' = vc_files \ { <<clip_paths[k].src, clip_paths[k].start, clip_paths[k].end>> :
                                  k \in 1..Len(clip_paths) }
    /\ vc_result' = VcResult("returned", "none")
    /\ vc_pc' = "returned"
    /\ UNCHANGED <<vcInputs, scenes, vc_i, vc_passed, clip_paths,
                   video_clips_loaded, final_video, audio_clip, vc_starts, vc_failed>>


IdleVC ==
    /\ video_clips = <<>> /\ scenes = <<>> /\ vc_script = <<>>
    /\ vc_is_str = FALSE /\ music_path = FALSE /\ thumbnail_path = FALSE
    /\ vc_pc = "idle" /\ vc_i = 1 /\ vc_passed = <<>> /\ clip_paths = <<>>
    /\ vc_files = {} /\ vc_handles = <<>> /\ video_clips_loaded = <<>>
    /\ final_video = NoHandle /\ audio_clip = NoHandle /\ vc_starts = <<>>
    /\ vc_failed = {} /\ vc_result = VcResult("none", "none")

IdleSG ==
    /\ summaries_list = <<>> /\ sg_target = 0 /\ api_key = FALSE
    /\ sg_script = NoScript /\ total_scene_duration = 0
    /\ sg_pc = "idle" /\ sg_result = SgResult("none", NoScript)

\* ===========================================================================
\* Orchestrator: workflow_ui.run_workflow, workflow_agent.agent_workflow,
\* script_writer_agent, video_editor_agent and _fallback_agent_workflow
\* ===========================================================================

\* A progress-log entry: its level (the emoji of the message), the stage it
\* is about, and its text.
Msg(level, stage, text) == [level |-> level, stage |-> stage, text |-> text]

WfRet(kind, final, log, summary_json, script_json, thumbnail) ==
    [kind |-> kind, final |-> final, log |-> log, summary_json |-> summary_json,
     script_json |-> script_json, thumbnail |-> thumbnail]

NoRet == WfRet("none", "none", <<>>, "", "", "none")
NoArgs == [called |-> FALSE, music |-> "none", thumbnail |-> "none"]

\* What video_summarizer returns (video_summarizer.py): the summary object
\* (lines 53-65, 149-159) or an {"error": ...} object (lines 28, 32, 37, 162).
OkSummary == "summary"
ErrorSummary == "error"
SummarizerResults == {OkSummary, ErrorSummary}

wfInputs == <<wf_variant, wf_videos, wf_generate_music, wf_api_key>>

InitWF ==
    /\ wf_variant \in {"adk", "fallback", "stream"}
    /\ wf_videos \in 0..MaxVideos
    /\ wf_generate_music \in BOOLEAN
    /\ wf_api_key \in BOOLEAN
    /\ wf_pc = "start"
    /\ wf_i = 1
    /\ progress_messages = <<>>
    /\ wf_trace = <<>>
    /\ video_summaries = <<>>
    /\ wf_script = FALSE
    /\ wf_music_path = "none"
    /\ wf_thumbnail_path = "none"
    /\ wf_final_video_path = "none"
    /\ wf_failures = {}
    /\ wf_cause = "none"
    /\ wf_compose_args = NoArgs
    /\ wf_summary_json = ""
    /\ wf_ret = NoRet

\* agent_workflow's handler (workflow_agent.py lines 580-584) logs the error
\* and re-raises; run_workflow's handler (workflow_ui.py lines 38-42) returns
\* (None, log + error, "", "", None)
WfFail(stage, log) ==
    LET log2 == Append(log, Msg("error", stage, "Agent workflow error"))
    IN  /\ progress_messages' = log2
        /\ wf_failures' = wf_failures \cup {stage}
        /\ wf_cause' = stage
        /\ wf_ret' = WfRet("error", "none", log2, "", "", "none")
        /\ wf_pc' = "failed"

\* workflow_ui.py lines 6-19 and workflow_agent.py lines 528-553
Run_Start ==
    /\ wf_pc = "start"
    /\ wf_variant = "adk"
    /\ IF wf_videos = 0
       THEN /\ wf_ret' = WfRet("error", "none", <<>>, "", "", "none")
            /\ wf_pc' = "failed"
            /\ wf_cause' = "input"
            /\ UNCHANGED progress_messages
       ELSE /\ progress_messages' = progress_messages \o
                  << Msg("info", "input", "Agent initializing..."),
                     Msg("info", "input", "Starting two-agent workflow...") >>
            /\ wf_pc' = "sw_init"
            /\ UNCHANGED <<wf_ret, wf_cause>>
    /\ UNCHANGED <<wfInputs, wf_i, wf_trace, video_summaries, wf_script, wf_music_path,
                   wf_thumbnail_path, wf_final_video_path, wf_failures, wf_compose_args, wf_summary_json>>
    /\ UNCHANGED <<sgVars, vcVars, restVars>>

\* script_writer_agent, lines 235-301
SW_Init ==
    /\ wf_pc = "sw_init"
    /\ IF ~wf_api_key
       THEN WfFail("input", progress_messages)
       ELSE /\ progress_messages' = progress_messages \o
                  << Msg("info", "plan", "Script Writer Agent: Initializing..."),
                     Msg("info", "plan", "Script Writer: Reasoning and planning...") >>
            /\ wf_pc' = "sw_agent"
            /\ UNCHANGED <<wf_failures, wf_cause, wf_ret>>
    /\ UNCHANGED <<wfInputs, wf_i, wf_trace, video_summaries, wf_script, wf_music_path,
                   wf_thumbnail_path, wf_final_video_path, wf_compose_args, wf_summary_json>>
    /\ UNCHANGED <<sgVars, vcVars, restVars>>

\* script_writer_agent, lines 303-324: the LLM agent's own run; its tool
\* results are not used, the stages are executed again below
SW_AgentRun ==
    /\ wf_pc = "sw_agent"
    /\ \E ok \in BOOLEAN :
         IF ok
         THEN /\ progress_messages' = Append(progress_messages,
                    Msg("info", "plan", "Script Writer: Extracting results..."))
              /\ wf_pc' = "sw_analyze"
              /\ UNCHANGED <<wf_failures, wf_cause, wf_ret>>
         ELSE WfFail("agent", progress_messages)
    /\ UNCHANGED <<wfInputs, wf_i, wf_trace, video_summaries, wf_script, wf_music_path,
                   wf_thumbnail_path, wf_final_video_path, wf_compose_args, wf_summary_json>>
    /\ UNCHANGED <<sgVars, vcVars, restVars>>

\* script_writer_agent, lines 326-331: one iteration of the analysis loop.
\* video_summarizer returns its summary or its error object; it never raises.
SW_Analyze ==
    /\ wf_pc = "sw_analyze"
    /\ LET log == Append(progress_messages, Msg("info", "analyze", "Analyzing video..."))
       IN  /\ wf_trace' = Append(wf_trace, "analyze")
           /\ progress_messages' = log
           /\ \E summary \in SummarizerResults :
                /\ video_summaries' = Append(video_summaries, summary)
                /\ wf_failures' = IF summary = ErrorSummary
                                  THEN wf_failures \cup {"analyze"}
                                  ELSE wf_failures
           /\ wf_i' = wf_i + 1
           /\ wf_pc' = IF wf_i = wf_videos THEN "sw_script" ELSE "sw_analyze"
           /\ UNCHANGED <<wf_cause, wf_ret>>
    /\ UNCHANGED <<wfInputs, wf_script, wf_music_path,
                   wf_thumbnail_path, wf_final_video_path, wf_compose_args, wf_summary_json>>
    /\ UNCHANGED <<sgVars, vcVars, restVars>>

\* script_writer_agent, lines 333-342
SW_Script ==
    /\ wf_pc = "sw_script"
    /\ LET log == Append(progress_messages, Msg("info", "plan", "Generating script..."))
       IN  /\ wf_trace' = Append(wf_trace, "plan")
           /\ \E ok \in BOOLEAN :
                IF ok
                THEN /\ progress_messages' = log
                     /\ wf_script' = TRUE
                     /\ wf_pc' = "sw_music"
                     /\ UNCHANGED <<wf_failures, wf_cause, wf_ret>>
                ELSE /\ WfFail("plan", log)
                     /\ UNCHANGED wf_script
    /\ UNCHANGED <<wfInputs, wf_i, video_summaries, wf_music_path,
                   wf_thumbnail_path, wf_final_video_path, wf_compose_args, wf_summary_json>>
    /\ UNCHANGED <<sgVars, vcVars, restVars>>

\* SW_Music with a music_selector failure treated as fatal
SW_Music_Fatal ==
    /\ wf_pc = "sw_music"
    /\ IF wf_generate_music
       THEN LET log == Append(progress_messages, Msg("info", "audio", "Generating music..."))
            IN  /\ wf_trace' = Append(wf_trace, "audio")
                /\ \E ok \in BOOLEAN :
                     IF ok
                     THEN /\ progress_messages' = log
                          /\ wf_music_path' = "music"
                          /\ wf_pc' = "ve_init"
                          /\ UNCHANGED <<wf_failures, wf_cause, wf_ret>>
                     ELSE /\ WfFail("audio", log)
                          /\ UNCHANGED wf_music_path
       ELSE /\ wf_pc' = "ve_init"
            /\ UNCHANGED <<progress_messages, wf_trace, wf_music_path, wf_failures,
                           wf_cause, wf_ret>>
    /\ UNCHANGED <<wfInputs, wf_i, video_summaries, wf_script,
                   wf_thumbnail_path, wf_final_video_path, wf_compose_args, wf_summary_json>>
    /\ UNCHANGED <<sgVars, vcVars, restVars>>

\* script_writer_agent, lines 344-365: music_selector inside `try ... except: pass`
SW_Music ==
    /\ wf_pc = "sw_music"
    /\ IF wf_generate_music
       THEN /\ progress_messages' = Append(progress_messages,
                                           Msg("info", "audio", "Generating music..."))
            /\ wf_trace' = Append(wf_trace, "audio")
            /\ \E ok \in BOOLEAN :
                 IF ok
                 THEN /\ wf_music_path' = "music"
                      /\ UNCHANGED wf_failures
                 ELSE /\ wf_failures' = wf_failures \cup {"audio"}
                      /\ UNCHANGED wf_music_path
       ELSE UNCHANGED <<progress_messages, wf_trace, wf_music_path, wf_failures>>
    /\ wf_pc' = "ve_init"
    /\ UNCHANGED <<wfInputs, wf_i, video_summaries, wf_script, wf_cause, wf_ret,
                   wf_thumbnail_path, wf_final_video_path, wf_compose_args, wf_summary_json>>
    /\ UNCHANGED <<sgVars, vcVars, restVars>>

\* video_editor_agent, lines 389-436
VE_Init ==
    /\ wf_pc = "ve_init"
    /\ IF ~wf_api_key
       THEN WfFail("input", progress_messages)
       ELSE /\ progress_messages' = progress_messages \o
                  << Msg("info", "compose", "Video Editor Agent: Initializing..."),
                     Msg("info", "compose", "Video Editor: Executing composition...") >>
            /\ wf_pc' = "ve_agent"
            /\ UNCHANGED <<wf_failures, wf_cause, wf_ret>>
    /\ UNCHANGED <<wfInputs, wf_i, wf_trace, video_summaries, wf_script, wf_music_path,
                   wf_thumbnail_path, wf_final_video_path, wf_compose_args, wf_summary_json>>
    /\ UNCHANGED <<sgVars, vcVars, restVars>>

\* video_editor_agent, lines 438-460: the LLM agent's own run. The agent may
\* call the video_composer tool and name the file it wrote in its response;
\* a video path found in the response that exists becomes final_video_path.
VE_AgentRun ==
    /\ wf_pc = "ve_agent"
    /\ \E outcome \in {"raise", "no_video", "composed"} :
         CASE outcome = "raise" ->
                /\ WfFail("agent", progress_messages)
                /\ UNCHANGED <<wf_trace, wf_final_video_path>>
           [] outcome = "no_video" ->
                /\ wf_pc' = "ve_frame"
                /\ UNCHANGED <<progress_messages, wf_trace, wf_final_video_path,
                               wf_failures, wf_cause, wf_ret>>
           [] OTHER ->
                /\ wf_trace' = Append(wf_trace, "compose")
                /\ wf_final_video_path' = "agent"
                /\ wf_pc' = "ve_frame"
                /\ UNCHANGED <<progress_messages, wf_failures, wf_cause, wf_ret>>
    /\ UNCHANGED <<wfInputs, wf_i, video_summaries, wf_script, wf_music_path,
                   wf_thumbnail_path, wf_compose_args, wf_summary_json>>
    /\ UNCHANGED <<sgVars, vcVars, restVars>>

\* VE_ExtractFrame with a frame_extractor failure treated as fatal
VE_ExtractFrame_Fatal ==
    /\ wf_pc = "ve_frame"
    /\ LET log == Append(progress_messages,
                         Msg("info", "frame", "Extracting frame for thumbnail..."))
       IN  /\ wf_trace' = Append(wf_trace, "frame")
           /\ \E ok \in BOOLEAN :
                IF ok
                THEN /\ progress_messages' = log
                     /\ wf_pc' = "ve_thumbnail"
                     /\ UNCHANGED <<wf_failures, wf_cause, wf_ret>>
                ELSE WfFail("frame", log)
    /\ UNCHANGED <<wfInputs, wf_i, video_summaries, wf_script, wf_music_path,
                   wf_thumbnail_path, wf_final_video_path, wf_compose_args, wf_summary_json>>
    /\ UNCHANGED <<sgVars, vcVars, restVars>>

\* video_editor_agent, lines 462-471 and the handler at 485-487:
\* frame_extractor inside the thumbnail try/except
VE_ExtractFrame ==
    /\ wf_pc = "ve_frame"
    /\ LET log == Append(progress_messages,
                         Msg("info", "frame", "Extracting frame for thumbnail..."))
       IN  /\ wf_trace' = Append(wf_trace, "frame")
           /\ \E ok \in BOOLEAN :
                IF ok
                THEN /\ progress_messages' = log
                     /\ wf_pc' = "ve_thumbnail"
                     /\ UNCHANGED wf_failures
                ELSE /\ progress_messages' = Append(log,
                            Msg("warning", "thumbnail", "Thumbnail generation skipped"))
                     /\ wf_failures' = wf_failures \cup {"frame"}
                     /\ wf_pc' = "ve_compose"
    /\ UNCHANGED <<wfInputs, wf_i, video_summaries, wf_script, wf_music_path, wf_cause,
                   wf_ret, wf_thumbnail_path, wf_final_video_path, wf_compose_args, wf_summary_json>>
    /\ UNCHANGED <<sgVars, vcVars, restVars>>

\* video_editor_agent, lines 473-487: thumbnail_generator inside the same
\* try/except
VE_GenerateThumbnail ==
    /\ wf_pc = "ve_thumbnail"
    /\ LET log == Append(progress_messages,
                         Msg("info", "thumbnail", "Generating thumbnail..."))
       IN  /\ wf_trace' = Append(wf_trace, "thumbnail")
           /\ \E ok \in BOOLEAN :
                IF ok
                THEN /\ progress_messages' = log
                     /\ wf_thumbnail_path' = "thumbnail"
                     /\ UNCHANGED wf_failures
                ELSE /\ progress_messages' = Append(log,
                            Msg("warning", "thumbnail", "Thumbnail generation skipped"))
                     /\ wf_failures' = wf_failures \cup {"thumbnail"}
                     /\ UNCHANGED wf_thumbnail_path
    /\ wf_pc' = "ve_compose"
    /\ UNCHANGED <<wfInputs, wf_i, video_summaries, wf_script, wf_music_path, wf_cause,
                   wf_ret, wf_final_video_path, wf_compose_args, wf_summary_json>>
    /\ UNCHANGED <<sgVars, vcVars, restVars>>

\* video_editor_agent, lines 489-504: video_composer is called only if the
\* agent's response did not yield a final video
VE_Compose ==
    /\ wf_pc = "ve_compose"
    /\ IF wf_final_video_path = "none"
       THEN LET log == Append(progress_messages,
                              Msg("info", "compose", "Video Editor: Extracting results..."))
            IN  /\ wf_trace' = Append(wf_trace, "compose")
                /\ wf_compose_args' = [called |-> TRUE, music |-> wf_music_path,
                                       thumbnail |-> wf_thumbnail_path]
                /\ \E ok \in BOOLEAN :
                     IF ok
                     THEN /\ progress_messages' = log
                          /\ wf_final_video_path' = "composer"
                          /\ wf_pc' = "complete"
                          /\ UNCHANGED <<wf_failures, wf_cause, wf_ret>>
                     ELSE /\ WfFail("compose", log)
                          /\ UNCHANGED wf_final_video_path
       ELSE /\ wf_pc' = "complete"
            /\ UNCHANGED <<progress_messages, wf_trace, wf_compose_args,
                           wf_final_video_path, wf_failures, wf_cause, wf_ret>>
    /\ UNCHANGED <<wfInputs, wf_i, video_summaries, wf_script, wf_music_path,
                   wf_thumbnail_path>>
    /\ UNCHANGED wf_summary_json
    /\ UNCHANGED <<sgVars, vcVars, restVars>>

\* workflow_agent.py lines 575-578 and workflow_ui.py lines 30-36
Run_Complete ==
    /\ wf_pc = "complete"
    /\ LET log == Append(progress_messages,
                         Msg("info", "done", "Two-agent workflow complete!"))
       IN  /\ progress_messages' = log
           /\ wf_ret' = WfRet("ok", wf_final_video_path, log, "summaries", "script",
                              wf_thumbnail_path)
    /\ wf_pc' = "done"
    /\ UNCHANGED <<wfInputs, wf_i, wf_trace, video_summaries, wf_script, wf_music_path,
                   wf_thumbnail_path, wf_final_video_path, wf_failures, wf_cause,
                   wf_compose_args, wf_summary_json>>
    /\ UNCHANGED <<sgVars, vcVars, restVars>>

\* ---- _fallback_agent_workflow (workflow_agent.py lines 587-672) ----------
\* An exception leaves the function: its caller receives no value.
FbRaise(stage, log) ==
    /\ progress_messages' = log
    /\ wf_failures' = wf_failures \cup {stage}
    /\ wf_cause' = stage
    /\ wf_ret' = WfRet("raised", "none", <<>>, "", "", "none")
    /\ wf_pc' = "failed"

\* lines 595-598
FB_Start ==
    /\ wf_pc = "start"
    /\ wf_variant = "fallback"
    /\ progress_messages' = Append(progress_messages,
                                   Msg("info", "analyze", "Analyzing videos..."))
    /\ wf_pc' = IF wf_videos = 0 THEN "fb_script" ELSE "fb_analyze"
    /\ UNCHANGED <<wfInputs, wf_i, wf_trace, video_summaries, wf_script, wf_music_path,
                   wf_thumbnail_path, wf_final_video_path, wf_failures, wf_cause,
                   wf_compose_args, wf_summary_json, wf_ret>>
    /\ UNCHANGED <<sgVars, vcVars, restVars>>

\* lines 599-604: one iteration of the analysis loop
FB_Analyze ==
    /\ wf_pc = "fb_analyze"
    /\ LET log == Append(progress_messages, Msg("info", "analyze", "Analyzing video..."))
       IN  /\ wf_trace' = Append(wf_trace, "analyze")
           /\ progress_messages' = log
           /\ \E summary \in SummarizerResults :
                /\ video_summaries' = Append(video_summaries, summary)
                /\ wf_failures' = IF summary = ErrorSummary
                                  THEN wf_failures \cup {"analyze"}
                                  ELSE wf_failures
           /\ wf_i' = wf_i + 1
           /\ wf_pc' = IF wf_i = wf_videos THEN "fb_script" ELSE "fb_analyze"
           /\ UNCHANGED <<wf_cause, wf_ret>>
    /\ UNCHANGED <<wfInputs, wf_script, wf_music_path,
                   wf_thumbnail_path, wf_final_video_path, wf_compose_args, wf_summary_json>>
    /\ UNCHANGED <<sgVars, vcVars, restVars>>

\* lines 606-622: video_script_generator raises on an empty summary list
FB_Script ==
    /\ wf_pc = "fb_script"
    /\ LET log == Append(progress_messages, Msg("info", "plan", "Generating script..."))
       IN  /\ wf_trace' = Append(wf_trace, "plan")
           /\ \E ok \in BOOLEAN :
                IF ok /\ video_summaries # <<>>
                THEN /\ progress_messages' = log
                     /\ wf_script' = TRUE
                     /\ wf_pc' = "fb_music"
                     /\ UNCHANGED <<wf_failures, wf_cause, wf_ret>>
                ELSE /\ FbRaise("plan", Append(log,
                            Msg("error", "plan", "Script generation error")))
                     /\ UNCHANGED wf_script
    /\ UNCHANGED <<wfInputs, wf_i, video_summaries, wf_music_path,
                   wf_thumbnail_path, wf_final_video_path, wf_compose_args, wf_summary_json>>
    /\ UNCHANGED <<sgVars, vcVars, restVars>>

\* lines 624-639: music_selector inside `try ... except: pass`
FB_Music ==
    /\ wf_pc = "fb_music"
    /\ IF wf_generate_music
       THEN /\ progress_messages' = Append(progress_messages,
                                           Msg("info", "audio", "Generating music..."))
            /\ wf_trace' = Append(wf_trace, "audio")
            /\ \E ok \in BOOLEAN :
                 IF ok
                 THEN /\ wf_music_path' = "music"
                      /\ UNCHANGED wf_failures
                 ELSE /\ wf_failures' = wf_failures \cup {"audio"}
                      /\ UNCHANGED wf_music_path
       ELSE UNCHANGED <<progress_messages, wf_trace, wf_music_path, wf_failures>>
    /\ wf_pc' = "fb_frame"
    /\ UNCHANGED <<wfInputs, wf_i, video_summaries, wf_script, wf_cause, wf_ret,
                   wf_thumbnail_path, wf_final_video_path, wf_compose_args, wf_summary_json>>
    /\ UNCHANGED <<sgVars, vcVars, restVars>>

\* lines 641-647 and the handler at 656-658
FB_ExtractFrame ==
    /\ wf_pc = "fb_frame"
    /\ LET log == Append(progress_messages,
                         Msg("info", "frame", "Extracting frame for thumbnail..."))
       IN  /\ wf_trace' = Append(wf_trace, "frame")
           /\ \E ok \in BOOLEAN :
                IF ok
                THEN /\ progress_messages' = log
                     /\ wf_pc' = "fb_thumbnail"
                     /\ UNCHANGED wf_failures
                ELSE /\ progress_messages' = Append(log,
                            Msg("warning", "thumbnail", "Thumbnail generation skipped"))
                     /\ wf_failures' = wf_failures \cup {"frame"}
                     /\ wf_pc' = "fb_compose"
    /\ UNCHANGED <<wfInputs, wf_i, video_summaries, wf_script, wf_music_path, wf_cause,
                   wf_ret, wf_thumbnail_path, wf_final_video_path, wf_compose_args, wf_summary_json>>
    /\ UNCHANGED <<sgVars, vcVars, restVars>>

\* lines 649-658
FB_GenerateThumbnail ==
    /\ wf_pc = "fb_thumbnail"
    /\ LET log == Append(progress_messages,
                         Msg("info", "thumbnail", "Generating thumbnail..."))
       IN  /\ wf_trace' = Append(wf_trace, "thumbnail")
           /\ \E ok \in BOOLEAN :
                IF ok
                THEN /\ progress_messages' = log
                     /\ wf_thumbnail_path' = "thumbnail"
                     /\ UNCHANGED wf_failures
                ELSE /\ progress_messages' = Append(log,
                            Msg("warning", "thumbnail", "Thumbnail generation skipped"))
                     /\ wf_failures' = wf_failures \cup {"thumbnail"}
                     /\ UNCHANGED wf_thumbnail_path
    /\ wf_pc' = "fb_compose"
    /\ UNCHANGED <<wfInputs, wf_i, video_summaries, wf_script, wf_music_path, wf_cause,
                   wf_ret, wf_final_video_path, wf_compose_args, wf_summary_json>>
    /\ UNCHANGED <<sgVars, vcVars, restVars>>

\* lines 660-672
FB_Compose ==
    /\ wf_pc = "fb_compose"
    /\ LET log == Append(progress_messages,
                         Msg("info", "compose", "Composing final video..."))
       IN  /\ wf_trace' = Append(wf_trace, "compose")
           /\ wf_compose_args' = [called |-> TRUE, music |-> wf_music_path,
                                  thumbnail |-> wf_thumbnail_path]
           /\ \E ok \in BOOLEAN :
                IF ok
                THEN /\ progress_messages' = log
                     /\ wf_final_video_path' = "composer"
                     /\ wf_ret' = WfRet("ok", "composer", log, "summaries", "script",
                                        wf_thumbnail_path)
                     /\ wf_pc' = "done"
                     /\ UNCHANGED <<wf_failures, wf_cause>>
                ELSE /\ FbRaise("compose", log)
                     /\ UNCHANGED wf_final_video_path
    /\ UNCHANGED <<wfInputs, wf_i, video_summaries, wf_script, wf_music_path,
                   wf_thumbnail_path>>
    /\ UNCHANGED wf_summary_json
    /\ UNCHANGED <<sgVars, vcVars, restVars>>

\* ---- workflow.py: the generator agent_workflow ---------------------------
\* `status` is the sequence progress_messages; every yield hands the caller
\* (final_path, summary_json, script_json, thumbnail_path, status), kept in
\* wf_ret.
MaxMessages == 2

StYield(kind, final, log, summary_json, script, thumbnail) ==
    WfRet(kind, final, log, summary_json, IF script THEN "script" ELSE "", thumbnail)

\* StFail with the status rebuilt from the error alone
StFail_ResetStatus(stage, log) ==
    LET log2 == << Msg("error", stage, "Workflow error") >>
    IN  /\ progress_messages' = log2
        /\ wf_failures' = wf_failures \cup {stage}
        /\ wf_cause' = stage
        /\ wf_ret' = StYield("error", wf_final_video_path, log2, wf_summary_json,
                             wf_script, wf_thumbnail_path)
        /\ wf_pc' = "failed"

\* an early return (lines 130-133, 140-143) or the handler at lines 350-355:
\* the error is appended to status and the locals are yielded one last time
StFail(stage, log) ==
    LET log2 == Append(log, Msg("error", stage, "Workflow error"))
    IN  /\ progress_messages' = log2
        /\ wf_failures' = wf_failures \cup {stage}
        /\ wf_cause' = stage
        /\ wf_ret' = StYield("error", wf_final_video_path, log2, wf_summary_json,
                             wf_script, wf_thumbnail_path)
        /\ wf_pc' = "failed"

\* lines 117-136: initial status, normalise the inputs
ST_Start ==
    /\ wf_pc = "start"
    /\ wf_variant = "stream"
    /\ LET log == << Msg("info", "input", "Starting workflow..."),
                     Msg("info", "input", "Processing video inputs...") >>
       IN  IF wf_videos = 0
           THEN StFail("input", log)
           ELSE LET log2 == Append(log, Msg("info", "input", "Found video file(s)."))
                IN  /\ progress_messages' = log2
                    /\ wf_ret' = StYield("yield", "none", log2, "", FALSE, "none")
                    /\ wf_pc' = "st_key"
                    /\ UNCHANGED <<wf_failures, wf_cause>>
    /\ UNCHANGED <<wfInputs, wf_i, wf_trace, video_summaries, wf_script, wf_music_path,
                   wf_thumbnail_path, wf_final_video_path, wf_compose_args, wf_summary_json>>
    /\ UNCHANGED <<sgVars, vcVars, restVars>>

\* lines 138-225: credential, LLM and agent construction, agent.invoke
ST_Invoke ==
    /\ wf_pc = "st_key"
    /\ IF ~wf_api_key
       THEN StFail("input", progress_messages)
       ELSE \E outcome \in {"create_raise", "invoke_raise", "ok"} :
              LET log == Append(progress_messages,
                                Msg("info", "agent", "Initializing AI agent..."))
                  log2 == log \o << Msg("info", "agent", "Starting video creation workflow..."),
                                    Msg("info", "agent", "Agent is working...") >>
              IN  CASE outcome = "create_raise" -> StFail("agent", log)
                    [] outcome = "invoke_raise" -> StFail("agent", log2)
                    [] OTHER ->
                         /\ progress_messages' = log2
                         /\ wf_ret' = StYield("yield", "none", log2, "", FALSE, "none")
                         /\ wf_pc' = "st_messages"
                         /\ UNCHANGED <<wf_failures, wf_cause>>
    /\ UNCHANGED <<wfInputs, wf_i, wf_trace, video_summaries, wf_script, wf_music_path,
                   wf_thumbnail_path, wf_final_video_path, wf_compose_args, wf_summary_json>>
    /\ UNCHANGED <<sgVars, vcVars, restVars>>

\* What the loop body (lines 236-307) finds in one message of the agent's
\* result: summaries JSON, a script JSON with "scenes", an existing music
\* file, an existing image file, an existing video file.
AgentMessage(summary, script, music, thumbnail, video) ==
    [summary |-> summary, script |-> script, music |-> music,
     thumbnail |-> thumbnail, video |-> video]

AgentMessageSet ==
    { AgentMessage(FALSE, FALSE, FALSE, FALSE, FALSE),
      AgentMessage(TRUE, FALSE, FALSE, FALSE, FALSE),
      AgentMessage(FALSE, TRUE, FALSE, FALSE, FALSE),
      AgentMessage(FALSE, FALSE, TRUE, FALSE, FALSE),
      AgentMessage(FALSE, FALSE, FALSE, TRUE, FALSE),
      AgentMessage(FALSE, FALSE, FALSE, FALSE, TRUE),
      AgentMessage(TRUE, TRUE, FALSE, TRUE, TRUE) }

\* lines 236-307: one iteration of the loop over result["messages"]
ST_Message ==
    /\ wf_pc = "st_messages"
    /\ wf_i <= MaxMessages
    /\ \E ok \in BOOLEAN :
         IF ~ok
         THEN /\ StFail("agent", progress_messages)
              /\ UNCHANGED <<wf_i, video_summaries, wf_script, wf_thumbnail_path,
                             wf_final_video_path>>
         ELSE \E m \in AgentMessageSet :
                LET found == (IF m.script THEN << Msg("info", "plan", "Script generated.") >>
                              ELSE <<>>)
                          \o (IF m.music THEN << Msg("info", "audio", "Music generated.") >>
                              ELSE <<>>)
                          \o (IF m.thumbnail
                              THEN << Msg("info", "thumbnail", "Thumbnail generated.") >>
                              ELSE <<>>)
                          \o (IF m.video THEN << Msg("info", "compose", "Final video created.") >>
                              ELSE <<>>)
                    script == wf_script \/ m.script
                    thumb == IF m.thumbnail THEN "thumbnail" ELSE wf_thumbnail_path
                    final == IF m.video THEN "agent" ELSE wf_final_video_path
                IN  /\ video_summaries' = IF m.summary
                                          THEN Append(video_summaries, OkSummary)
                                          ELSE video_summaries
                    /\ wf_script' = script
                    /\ wf_thumbnail_path' = thumb
                    /\ wf_final_video_path' = final
                    /\ progress_messages' = progress_messages \o found
                    /\ wf_ret' = IF found = <<>> THEN wf_ret
                                 ELSE StYield("yield", final, progress_messages \o found,
                                              wf_summary_json, script, thumb)
                    /\ wf_i' = wf_i + 1
                    /\ UNCHANGED <<wf_pc, wf_failures, wf_cause>>
    /\ UNCHANGED <<wfInputs, wf_trace, wf_music_path, wf_compose_args, wf_summary_json>>
    /\ UNCHANGED <<sgVars, vcVars, restVars>>

\* lines 309-339: compile the summaries, then take what is still missing from
\* the text of the last message; a file path found there is not checked to
\* exist (lines 77-88, 331-339): the text is an existing path, or the pattern
\* matches a path where a file may ("existing") or may not ("missing") be
ST_Compile ==
    /\ wf_pc = "st_messages"
    /\ \E json \in BOOLEAN, image \in BOOLEAN, video \in {"none", "existing", "missing"} :
         LET has_last == wf_i > 1
             log == IF video_summaries # <<>>
                    THEN Append(progress_messages,
                                Msg("info", "analyze", "Analyzed video(s)."))
                    ELSE progress_messages
             summary_json == IF video_summaries # <<>> THEN "summaries" ELSE wf_summary_json
         IN  /\ progress_messages' = log
             /\ wf_ret' = IF video_summaries # <<>>
                          THEN StYield("yield", wf_final_video_path, log, summary_json,
                                       wf_script, wf_thumbnail_path)
                          ELSE wf_ret
             /\ wf_script' = (wf_script \/ (has_last /\ json))
             /\ wf_summary_json' = IF summary_json = "" /\ has_last /\ json
                                   THEN "json" ELSE summary_json
             /\ wf_thumbnail_path' = IF wf_thumbnail_path = "none" /\ has_last /\ image
                                     THEN "unverified" ELSE wf_thumbnail_path
             /\ wf_final_video_path' = IF wf_final_video_path = "none" /\ has_last
                                          /\ video # "none"
                                       THEN video ELSE wf_final_video_path
    /\ wf_pc' = "st_final"
    /\ UNCHANGED <<wfInputs, wf_i, wf_trace, video_summaries, wf_music_path, wf_failures,
                   wf_cause, wf_compose_args>>
    /\ UNCHANGED <<sgVars, vcVars, restVars>>

\* lines 341-348: the final status and the last yield
ST_Final ==
    /\ wf_pc = "st_final"
    /\ LET log == IF wf_final_video_path # "none"
                  THEN Append(progress_messages,
                              Msg("info", "done", "Video creation complete!"))
                  ELSE progress_messages \o
                         << Msg("warning", "done", "Workflow completed, but final video path not found."),
                            Msg("warning", "done", "Check agent output for details.") >>
       IN  /\ progress_messages' = log
           /\ wf_ret' = StYield(IF wf_final_video_path # "none" THEN "ok" ELSE "incomplete",
                                wf_final_video_path, log, wf_summary_json, wf_script,
                                wf_thumbnail_path)
    /\ wf_pc' = "done"
    /\ UNCHANGED <<wfInputs, wf_i, wf_trace, video_summaries, wf_script, wf_music_path,
                   wf_thumbnail_path, wf_final_video_path, wf_failures, wf_cause,
                   wf_compose_args, wf_summary_json>>
    /\ UNCHANGED <<sgVars, vcVars, restVars>>

IdleWF ==
    /\ wf_variant = "adk" /\ wf_videos = 0 /\ wf_generate_music = FALSE
    /\ wf_api_key = FALSE /\ wf_pc = "idle" /\ wf_i = 1
    /\ progress_messages = <<>> /\ wf_trace = <<>> /\ video_summaries = <<>>
    /\ wf_script = FALSE /\ wf_music_path = "none" /\ wf_thumbnail_path = "none"
    /\ wf_final_video_path = "none" /\ wf_failures = {} /\ wf_cause = "none"
    /\ wf_compose_args = NoArgs /\ wf_summary_json = "" /\ wf_ret = NoRet

\* ===========================================================================
\* video_clipper
\* ===========================================================================

\* the arguments tried, in milliseconds
ClipperStartSet == {-500, 0, 500, 1000, 2500}
ClipperEndSet == {0, 1000, 3000}
ClipperDurationSet == {50, 1000, 3000}

\* lines 63-70: the default output path is built from the source basename and
\* the two times
ClippedPath(basename, start, end) ==
    [kind |-> "clipped", basename |-> basename, start |-> start, end |-> end]

ClResult(kind, cause, start, end) ==
    [kind |-> kind, cause |-> cause, start |-> start, end |-> end]

InitCL ==
    /\ cl_start_time \in ClipperStartSet
    /\ cl_end_time \in ClipperEndSet
    /\ cl_video_duration \in ClipperDurationSet
    /\ cl_output_path \in BOOLEAN
    /\ cl_pc = "validate"
    /\ cl_handles = <<>>
    /\ cl_files = {}
    /\ cl_result = ClResult("none", "none", 0, 0)

clInputs == <<cl_start_time, cl_video_duration, cl_output_path>>

\* the `except Exception` handler (lines 107-116): close `video` and
\* `clipped_video` if the locals exist, then raise
ClRaise(cause, hs) ==
    /\ cl_handles' = Close(Handle("clipped_video", 0), Close(Handle("video", 0), hs))
    /\ cl_result' = ClResult("raised", cause, 0, 0)
    /\ cl_pc' = "raised"

\* lines 24-41: input format, file existence, start_time >= 0, end_time > start_time
CL_Validate ==
    /\ cl_pc = "validate"
    /\ \E exists \in BOOLEAN :
         IF ~exists THEN ClRaise("not_found", cl_handles)
         ELSE IF cl_start_time < 0 \/ cl_end_time <= cl_start_time
         THEN ClRaise("arguments", cl_handles)
         ELSE /\ cl_pc' = "open"
              /\ UNCHANGED <<cl_handles, cl_result>>
    /\ UNCHANGED <<clInputs, cl_end_time, cl_files>>
    /\ UNCHANGED <<sgVars, vcVars, wfVars, arVars, tlVars>>

\* lines 43-56: open the source, reject a start at or beyond its duration,
\* clamp end_time
CL_Open ==
    /\ cl_pc = "open"
    /\ \E ok \in BOOLEAN :
         IF ~ok
         THEN /\ ClRaise("open", cl_handles)
              /\ UNCHANGED cl_end_time
         ELSE LET hs == Open(Handle("video", 0), cl_handles)
              IN  IF cl_start_time >= cl_video_duration
                  THEN \* video.close() at line 49, then the handler
                       /\ ClRaise("start_exceeds_duration", Close(Handle("video", 0), hs))
                       /\ UNCHANGED cl_end_time
                  ELSE /\ cl_handles' = hs
                       /\ cl_end_time' = Min(cl_end_time, cl_video_duration)
                       /\ cl_pc' = "subclip"
                       /\ UNCHANGED cl_result
    /\ UNCHANGED <<clInputs, cl_files>>
    /\ UNCHANGED <<sgVars, vcVars, wfVars, arVars, tlVars>>

\* line 59: clipped_video = video.subclipped(start_time, end_time)
CL_Subclip ==
    /\ cl_pc = "subclip"
    /\ \E ok \in BOOLEAN :
         IF ok
         THEN /\ cl_handles' = Open(Handle("clipped_video", 0), cl_handles)
              /\ cl_pc' = "write"
              /\ UNCHANGED cl_result
         ELSE ClRaise("subclip", cl_handles)
    /\ UNCHANGED <<clInputs, cl_end_time, cl_files>>
    /\ UNCHANGED <<sgVars, vcVars, wfVars, arVars, tlVars>>

\* the path the segment is written to (lines 62-70)
ClOutputPath ==
    IF cl_output_path THEN [kind |-> "given", basename |-> "", start |-> 0, end |-> 0]
    ELSE ClippedPath(ClipBasename[1], cl_start_time, cl_end_time)

\* lines 62-86: choose the output path and write the segment
CL_Write ==
    /\ cl_pc = "write"
    /\ \E ok \in BOOLEAN :
         IF ok
         THEN /\ cl_files' = cl_files \cup {ClOutputPath}
              /\ cl_pc' = "close"
              /\ UNCHANGED <<cl_handles, cl_result>>
         ELSE /\ ClRaise("write", cl_handles)
              /\ UNCHANGED cl_files
    /\ UNCHANGED <<clInputs, cl_end_time>>
    /\ UNCHANGED <<sgVars, vcVars, wfVars, arVars, tlVars>>

\* lines 88-90: clipped_video.close(); video.close()
CL_Close ==
    /\ cl_pc = "close"
    /\ cl_handles' = Close(Handle("video", 0), Close(Handle("clipped_video", 0), cl_handles))
    /\ cl_pc' = "verify"
    /\ UNCHANGED <<clInputs, cl_end_time, cl_files, cl_result>>
    /\ UNCHANGED <<sgVars, vcVars, wfVars, arVars, tlVars>>

\* lines 92-105: reload the artifact, read its duration, close it, return
CL_Verify ==
    /\ cl_pc = "verify"
    /\ \E ok \in BOOLEAN :
         IF ok
         THEN /\ cl_handles' = Close(Handle("verify_clip", 0),
                                     Open(Handle("verify_clip", 0), cl_handles))
              /\ cl_result' = ClResult("returned", "none", cl_start_time, cl_end_time)
              /\ cl_pc' = "returned"
         ELSE ClRaise("verify", cl_handles)
    /\ UNCHANGED <<clInputs, cl_end_time, cl_files>>
    /\ UNCHANGED <<sgVars, vcVars, wfVars, arVars, tlVars>>

IdleCL ==
    /\ cl_start_time = 0 /\ cl_end_time = 0 /\ cl_video_duration = 0
    /\ cl_output_path = FALSE /\ cl_pc = "idle" /\ cl_handles = <<>>
    /\ cl_files = {} /\ cl_result = ClResult("none", "none", 0, 0)

\* ===========================================================================
\* Default artifact paths: two runs of the pipeline (thumbnail_generator, then
\* video_composer with its video_clipper calls) sharing tempfile.gettempdir()
\* ===========================================================================
Runs == {1, 2}

\* thumbnail_generator.py lines 172-175: thumbnail_{int(time.time())}.png
\* (the fields a name does not use are left empty)
ThumbnailPath(timestamp) ==
    [kind |-> "thumbnail", basename |-> "", start |-> timestamp, end |-> 0]

\* video_composer.py lines 494-499: composed_video_{os.getpid()}.mp4
ComposedPath(pid) ==
    [kind |-> "composed", basename |-> "", start |-> pid, end |-> 0]

InitAR ==
    /\ ar_pid \in [Runs -> {100, 101}]
    /\ ar_source \in [Runs -> {ClipBasename[1], ClipBasename[2]}]
    /\ ar_range \in [Runs -> {<<0, 1000>>, <<500, 1000>>}]
    /\ ar_clock = 0
    /\ ar_pc = [r \in Runs |-> "thumbnail"]
    /\ ar_paths = [r \in Runs |-> {}]

\* the clock of the host advances
AR_Tick ==
    /\ ar_clock < MaxClock
    /\ ar_clock' = ar_clock + 1
    /\ UNCHANGED <<ar_pid, ar_source, ar_range, ar_pc, ar_paths>>
    /\ UNCHANGED <<sgVars, vcVars, wfVars, clVars, tlVars>>

\* thumbnail_generator with output_path=None (workflow_agent.py lines 481-484)
AR_Thumbnail ==
    /\ \E r \in Runs :
         /\ ar_pc[r] = "thumbnail"
         /\ ar_paths' = [ar_paths EXCEPT ![r] = @ \cup {ThumbnailPath(ar_clock)}]
         /\ ar_pc' = [ar_pc EXCEPT ![r] = "clip"]
    /\ UNCHANGED <<ar_pid, ar_source, ar_range, ar_clock>>
    /\ UNCHANGED <<sgVars, vcVars, wfVars, clVars, tlVars>>

\* video_clipper with output_path=None (video_composer.py line 300)
AR_Clip ==
    /\ \E r \in Runs :
         /\ ar_pc[r] = "clip"
         /\ ar_paths' = [ar_paths EXCEPT ![r] =
                            @ \cup {ClippedPath(ar_source[r], ar_range[r][1], ar_range[r][2])}]
         /\ ar_pc' = [ar_pc EXCEPT ![r] = "compose"]
    /\ UNCHANGED <<ar_pid, ar_source, ar_range, ar_clock>>
    /\ UNCHANGED <<sgVars, vcVars, wfVars, clVars, tlVars>>

\* video_composer with output_path=None (workflow_agent.py lines 497-502)
AR_Compose ==
    /\ \E r \in Runs :
         /\ ar_pc[r] = "compose"
         /\ ar_paths' = [ar_paths EXCEPT ![r] = @ \cup {ComposedPath(ar_pid[r])}]
         /\ ar_pc' = [ar_pc EXCEPT ![r] = "done"]
    /\ UNCHANGED <<ar_pid, ar_source, ar_range, ar_clock>>
    /\ UNCHANGED <<sgVars, vcVars, wfVars, clVars, tlVars>>

IdleAR ==
    /\ ar_pid = [r \in Runs |-> 0] /\ ar_source = [r \in Runs |-> ""]
    /\ ar_range = [r \in Runs |-> <<0, 0>>] /\ ar_clock = 0
    /\ ar_pc = [r \in Runs |-> "idle"] /\ ar_paths = [r \in Runs |-> {}]

\* ===========================================================================
\* The single-call tools: music_selector, video_summarizer,
\* thumbnail_generator, calculate_frame_quality, subtitle_creator. One call
\* of one tool is made from the state in which none has been called.
\* ===========================================================================
VsResult(kind, summary, mood_tags, thumbnail_timeframe) ==
    [kind |-> kind, summary |-> summary, mood_tags |-> mood_tags,
     thumbnail_timeframe |-> thumbnail_timeframe]

IdleTL ==
    /\ ms_target_duration = 0 /\ ms_api_key = FALSE
    /\ api_params = [hasDuration |-> FALSE, duration_seconds |-> 0]
    /\ ms_pc = "idle" /\ ms_result = "none"
    /\ vs_duration = 0 /\ vs_api_key = FALSE /\ detected_moods = <<>>
    /\ vs_pc = "idle" /\ vs_result = VsResult("none", "", <<>>, 0)
    /\ tg_calls = <<>> /\ tg_pc = "idle" /\ tg_result = "none"
    /\ fq_frame = [sharpness |-> 0, contrast |-> 0, brightness |-> 0]
    /\ quality_score = 0 /\ fq_pc = "idle"
    /\ sc_subtitles = <<>> /\ sc_video_duration = 0 /\ sc_handles = <<>>
    /\ sc_pc = "idle" /\ sc_result = "none"

\* ---------------------------------------------------------------------------
\* music_selector (tools/music_selector.py)
\* ---------------------------------------------------------------------------

\* the clamp without its upper limit
ClampDuration_NoMax(d) == IF d <= 0 THEN 5000 ELSE d

\* lines 101-105: target_duration is reassigned to 30.0 above 30 s and to
\* 5.0 at or below 0
ClampDuration(d) ==
    IF d > 30000 THEN 30000
    ELSE IF d <= 0 THEN 5000
    ELSE d

\* lines 118-124: duration_seconds is put into api_params only when the
\* (clamped) target_duration is truthy and within 0.5 .. 30.0
ApiParams(d) ==
    IF d # 0 /\ 500 <= d /\ d <= 30000
    THEN [hasDuration |-> TRUE, duration_seconds |-> d]
    ELSE [hasDuration |-> FALSE, duration_seconds |-> 0]

\* lines 52-136: the credential check (ValueError, re-raised by the handler
\* at lines 186-187), then the prompt and the parameters of the call
MS_Call ==
    /\ IdleTL
    /\ \E d \in {-1000, 0, 300, 500, 10000, 30000, 30010, 50000}, key \in BOOLEAN :
         /\ ms_target_duration' = d
         /\ ms_api_key' = key
         /\ IF ~key
            THEN /\ ms_pc' = "raised"
                 /\ ms_result' = "no_key"
                 /\ UNCHANGED api_params
            ELSE /\ api_params' = ApiParams(ClampDuration(d))
                 /\ ms_pc' = "convert"
                 /\ UNCHANGED ms_result
    /\ UNCHANGED <<vsVars, tgVars, fqVars, scVars>>
    /\ UNCHANGED <<sgVars, vcVars, wfVars, clVars, arVars>>

\* lines 138-187: the collaborator is called with api_params; its audio is
\* saved and the path returned, or the failure is re-raised
MS_Convert ==
    /\ ms_pc = "convert"
    /\ \E outcome \in {"path", "convert_raised", "save_raised"} :
         /\ ms_result' = outcome
         /\ ms_pc' = IF outcome = "path" THEN "returned" ELSE "raised"
    /\ UNCHANGED <<ms_target_duration, ms_api_key, api_params>>
    /\ UNCHANGED <<vsVars, tgVars, fqVars, scVars>>
    /\ UNCHANGED <<sgVars, vcVars, wfVars, clVars, arVars>>

\* ---------------------------------------------------------------------------
\* video_summarizer (tools/video_summarizer.py)
\* ---------------------------------------------------------------------------

\* the no-credential summary carrying the default mood tag
NoKeySummary_General(duration) ==
    VsResult("summary", "requires_key", <<"general">>,
             IF duration > 0 THEN Round2(duration, 2) ELSE 0)

\* lines 48-65: without GOOGLE_API_KEY the metadata is returned with the
\* text "Video analysis requires GOOGLE_API_KEY environment variable", empty
\* key_scenes, detected_objects and mood_tags, and the middle of the video
NoKeySummary(duration) ==
    VsResult("summary", "requires_key", <<>>,
             IF duration > 0 THEN Round2(duration, 2) ELSE 0)

\* lines 128-146 and 155: the timestamp matched in the collaborator's text
\* (ts.matched is FALSE when the pattern does not match or float() raises
\* ValueError), bounded by the duration, with the duration / 2 fallback, and
\* rounded to two decimals
ThumbnailTimeframe(ts, duration) ==
    IF ts.matched
    THEN IF ts.value > duration THEN Round2(duration, 2)
         ELSE IF ts.value < 0 THEN 0
         ELSE Round2(ts.value, 1)
    ELSE IF duration > 0 THEN Round2(duration, 2) ELSE 0

\* lines 21-44: the input checks and the metadata; every failure is returned
\* as an {"error": ...} object
VS_Open ==
    /\ IdleTL
    /\ \E openable \in BOOLEAN, duration \in {0, 1000, 1007, 4000}, key \in BOOLEAN :
         /\ vs_api_key' = key
         /\ IF openable
            THEN /\ vs_duration' = duration
                 /\ vs_pc' = "key"
                 /\ UNCHANGED vs_result
            ELSE /\ vs_result' = VsResult("error", "could_not_open", <<>>, 0)
                 /\ vs_pc' = "returned"
                 /\ UNCHANGED vs_duration
    /\ UNCHANGED detected_moods
    /\ UNCHANGED <<msVars, tgVars, fqVars, scVars>>
    /\ UNCHANGED <<sgVars, vcVars, wfVars, clVars, arVars>>

\* lines 48-65
VS_NoKey ==
    /\ vs_pc = "key"
    /\ ~vs_api_key
    /\ vs_result' = NoKeySummary(vs_duration)
    /\ vs_pc' = "returned"
    /\ UNCHANGED <<vs_duration, vs_api_key, detected_moods>>
    /\ UNCHANGED <<msVars, tgVars, fqVars, scVars>>
    /\ UNCHANGED <<sgVars, vcVars, wfVars, clVars, arVars>>

\* lines 67-162: the collaborator analyses the video; mood keywords and the
\* thumbnail timestamp are taken from its text. An exception anywhere is
\* returned as an {"error": ...} object (lines 161-162).
VS_Analyze ==
    /\ vs_pc = "key"
    /\ vs_api_key
    /\ \E ok \in BOOLEAN,
          moods \in {<<>>, <<"calm">>, <<"energetic", "fun">>},
          ts \in { [matched |-> FALSE, value |-> 0] }
                   \cup { [matched |-> TRUE, value |-> v] :
                            v \in {0, 500, 1000, 1006, 4000, 9000} } :
         IF ok
         THEN /\ detected_moods' = moods
              /\ vs_result' = VsResult("summary", "analysis",
                                       IF moods # <<>> THEN moods ELSE <<"general">>,
                                       ThumbnailTimeframe(ts, vs_duration))
         ELSE /\ vs_result' = VsResult("error", "processing", <<>>, 0)
              /\ UNCHANGED detected_moods
    /\ vs_pc' = "returned"
    /\ UNCHANGED <<vs_duration, vs_api_key>>
    /\ UNCHANGED <<msVars, tgVars, fqVars, scVars>>
    /\ UNCHANGED <<sgVars, vcVars, wfVars, clVars, arVars>>

\* ---------------------------------------------------------------------------
\* thumbnail_generator (tools/thumbnail_generator.py)
\* ---------------------------------------------------------------------------

\* one client.models.generate_content call: whether it carried
\* config={"response_modalities": ["IMAGE"]} and whether it raised
GenerateCall(response_modalities, raised) ==
    [response_modalities |-> response_modalities, raised |-> raised]

\* lines 38-103: input and credential checks, image read, prompt
TG_Start ==
    /\ IdleTL
    /\ \E ok \in BOOLEAN :
         IF ok
         THEN /\ tg_pc' = "generate"
              /\ UNCHANGED tg_result
         ELSE /\ tg_pc' = "raised"
              /\ tg_result' = "raised"
    /\ UNCHANGED tg_calls
    /\ UNCHANGED <<msVars, vsVars, fqVars, scVars>>
    /\ UNCHANGED <<sgVars, vcVars, wfVars, clVars, arVars>>

\* lines 106-113: the first call, with the response-format hint
TG_Generate ==
    /\ tg_pc = "generate"
    /\ \E raised \in BOOLEAN :
         /\ tg_calls' = Append(tg_calls, GenerateCall(TRUE, raised))
         /\ tg_pc' = IF raised THEN "retry" ELSE "extract"
    /\ UNCHANGED tg_result
    /\ UNCHANGED <<msVars, vsVars, fqVars, scVars>>
    /\ UNCHANGED <<sgVars, vcVars, wfVars, clVars, arVars>>

\* the retry repeating the response-format hint
TG_Retry_WithHint ==
    /\ tg_pc = "retry"
    /\ \E raised \in BOOLEAN :
         /\ tg_calls' = Append(tg_calls, GenerateCall(TRUE, raised))
         /\ tg_pc' = IF raised THEN "raised" ELSE "extract"
         /\ tg_result' = IF raised THEN "raised" ELSE tg_result
    /\ UNCHANGED <<msVars, vsVars, fqVars, scVars>>
    /\ UNCHANGED <<sgVars, vcVars, wfVars, clVars, arVars>>

\* lines 114-122: the handler of the first call's exception calls once more
\* without config; if that raises too, the first exception is raised
TG_Retry ==
    /\ tg_pc = "retry"
    /\ \E raised \in BOOLEAN :
         /\ tg_calls' = Append(tg_calls, GenerateCall(FALSE, raised))
         /\ tg_pc' = IF raised THEN "raised" ELSE "extract"
         /\ tg_result' = IF raised THEN "raised" ELSE tg_result
    /\ UNCHANGED <<msVars, vsVars, fqVars, scVars>>
    /\ UNCHANGED <<sgVars, vcVars, wfVars, clVars, arVars>>

\* lines 124-189: the image is taken from the response, converted and
\* saved; a response without image data, or a failing save, raises
TG_Extract ==
    /\ tg_pc = "extract"
    /\ \E ok \in BOOLEAN :
         /\ tg_pc' = IF ok THEN "returned" ELSE "raised"
         /\ tg_result' = IF ok THEN "path" ELSE "raised"
    /\ UNCHANGED tg_calls
    /\ UNCHANGED <<msVars, vsVars, fqVars, scVars>>
    /\ UNCHANGED <<sgVars, vcVars, wfVars, clVars, arVars>>

\* ---------------------------------------------------------------------------
\* calculate_frame_quality (tools/frame_extractor.py). Scores are integers in
\* units of 1/110000; normalized_brightness is in units of 1/550.
\* ---------------------------------------------------------------------------

\* lines 78-87
NormalizedBrightness(brightness) ==
    IF 100 <= brightness /\ brightness <= 200 THEN 550
    ELSE IF brightness < 50 THEN 11 * brightness
    ELSE IF brightness > 200 THEN 550 - 10 * (brightness - 200)
    ELSE 440

\* lines 70-94: 0.5 * min(sharpness / 1000, 1) + 0.3 * min(contrast / 100, 1)
\* + 0.2 * normalized_brightness
CalculateFrameQuality(frame) ==
    55 * Min(frame.sharpness, 1000) + 330 * Min(frame.contrast, 100)
        + 40 * NormalizedBrightness(frame.brightness)

\* one call on a frame with the given measurements
FQ_Score ==
    /\ IdleTL
    /\ \E sharpness \in {0, 500, 2000}, contrast \in {0, 50, 150}, brightness \in 0..255 :
         LET frame == [sharpness |-> sharpness, contrast |-> contrast,
                       brightness |-> brightness]
         IN  /\ fq_frame' = frame
             /\ quality_score' = CalculateFrameQuality(frame)
    /\ fq_pc' = "scored"
    /\ UNCHANGED <<msVars, vsVars, tgVars, scVars>>
    /\ UNCHANGED <<sgVars, vcVars, wfVars, clVars, arVars>>

\* ---------------------------------------------------------------------------
\* subtitle_creator (tools/subtitle_creator.py)
\* ---------------------------------------------------------------------------
Subtitle(hasFields, start, end) ==
    [hasFields |-> hasFields, start |-> start, end |-> end]

SubtitleSet ==
    { Subtitle(TRUE, 0, 2500), Subtitle(TRUE, 2500, 5000), Subtitle(FALSE, 0, 0),
      Subtitle(TRUE, 3000, 1000), Subtitle(TRUE, -1000, 1000) }

\* lines 128-149: the check one subtitle entry fails, or "none"
SubtitleError(subtitle, video_duration) ==
    IF ~subtitle.hasFields THEN "fields"
    ELSE IF subtitle.start < 0 \/ subtitle.end < 0 THEN "negative"
    ELSE IF subtitle.end <= subtitle.start THEN "order"
    ELSE IF subtitle.start >= video_duration THEN "beyond"
    ELSE "none"

\* lines 92-113: the input file, the transcript JSON and its "subtitles" array
SC_Validate ==
    /\ IdleTL
    /\ \E ok \in BOOLEAN, subtitles \in SeqsUpTo(SubtitleSet, 0, MaxSubtitles) :
         IF ok /\ subtitles # <<>>
         THEN /\ sc_subtitles' = subtitles
              /\ sc_pc' = "load"
              /\ UNCHANGED sc_result
         ELSE /\ sc_pc' = "raised"
              /\ sc_result' = "input"
              /\ UNCHANGED sc_subtitles
    /\ UNCHANGED <<sc_video_duration, sc_handles>>
    /\ UNCHANGED <<msVars, vsVars, tgVars, fqVars>>
    /\ UNCHANGED <<sgVars, vcVars, wfVars, clVars, arVars>>

\* lines 124-126: video = VideoFileClip(video_path)
SC_Load ==
    /\ sc_pc = "load"
    /\ \E ok \in BOOLEAN, duration \in {2000, 6000} :
         IF ok
         THEN /\ sc_handles' = Open(Handle("video", 0), sc_handles)
              /\ sc_video_duration' = duration
              /\ sc_pc' = "timings"
              /\ UNCHANGED sc_result
         ELSE /\ sc_pc' = "raised"
              /\ sc_result' = "load"
              /\ UNCHANGED <<sc_video_duration, sc_handles>>
    /\ UNCHANGED sc_subtitles
    /\ UNCHANGED <<msVars, vsVars, tgVars, fqVars>>
    /\ UNCHANGED <<sgVars, vcVars, wfVars, clVars, arVars>>

\* lines 128-149: the loop validating every entry raises ValueError at the
\* first entry that fails; the handlers at lines 255-260 re-raise
SC_CheckTimings ==
    /\ sc_pc = "timings"
    /\ LET failing == { k \in 1..Len(sc_subtitles) :
                          SubtitleError(sc_subtitles[k], sc_video_duration) # "none" }
       IN  IF failing = {}
           THEN /\ sc_pc' = "compose"
                /\ UNCHANGED sc_result
           ELSE LET first == CHOOSE k \in failing : \A j \in failing : k <= j
                IN  /\ sc_pc' = "raised"
                    /\ sc_result' = SubtitleError(sc_subtitles[first], sc_video_duration)
    /\ UNCHANGED <<sc_subtitles, sc_video_duration, sc_handles>>
    /\ UNCHANGED <<msVars, vsVars, tgVars, fqVars>>
    /\ UNCHANGED <<sgVars, vcVars, wfVars, clVars, arVars>>

\* lines 151-253: the text clips, the composite, the write, and the cleanup
\* (lines 247-251) that only the successful path reaches
SC_Compose ==
    /\ sc_pc = "compose"
    /\ LET n == Len(sc_subtitles)
           texts(m) == [k \in 1..m |-> Handle("text", k)]
           opened(m) == [h \in DOMAIN sc_handles \cup { Handle("text", k) : k \in 1..m }
                           |-> IF h \in DOMAIN sc_handles THEN sc_handles[h] ELSE 0]
       IN  \E outcome \in {"text", "write", "path"}, m \in 0..(n - 1) :
             /\ sc_result' = outcome
             /\ CASE outcome = "text" ->
                       \* TextClip raised for entry m + 1
                       /\ sc_handles' = opened(m)
                       /\ sc_pc' = "raised"
                  [] outcome = "write" ->
                       /\ sc_handles' = Open(Handle("final", 0), opened(n))
                       /\ sc_pc' = "raised"
                  [] OTHER ->
                       /\ sc_handles' =
                            CloseAll(texts(n),
                              Close(Handle("final", 0),
                                Close(Handle("video", 0),
                                  Open(Handle("final", 0), opened(n)))))
                       /\ sc_pc' = "returned"
    /\ UNCHANGED <<sc_subtitles, sc_video_duration>>
    /\ UNCHANGED <<msVars, vsVars, tgVars, fqVars>>
    /\ UNCHANGED <<sgVars, vcVars, wfVars, clVars, arVars>>

IdleRest == IdleCL /\ IdleAR /\ IdleTL


\* ===========================================================================
\* Properties
\* ===========================================================================

\* C1: for every non-empty list of summaries and every target_duration > 0,
\* video_script_generator returns a script with at least one scene and never
\* raises, whatever the AI collaborator does.
C1_NeverRaises ==
    (sg_pc = "done" /\ summaries_list # <<>> /\ sg_target > 0)
        => (sg_result.kind = "script" /\ Len(sg_result.script.scenes) >= 1)

\* C2: when a video_composer call has ended, by return or by raise, every
\* clip handle it opened has been closed exactly once.
C2_ClosedExactlyOnce ==
    vc_pc \in {"returned", "raised"}
        => \A h \in DOMAIN vc_handles : vc_handles[h] = 1

\* C3: clamp invariant. For a scene with start_time >= 0 on a clip of real
\* duration D > 0, the range handed to video_clipper has 0 <= start < end <= D.
C3_ClampInvariant ==
    \A k \in 1..Len(vc_passed) :
        LET p == vc_passed[k]
        IN  (vc_script[p.scene].start_time >= 0 /\ p.D > 0)
                => (0 <= p.start /\ p.start < p.end /\ p.end <= p.D)

\* 0.005 s: the largest error of one round(x, 2)
RoundingTolerance == 5

\* the call returned the collaborator's script and its scene durations
\* summed to more than 5.0 s away from target_duration
RescaleApplies ==
    /\ sg_pc = "done"
    /\ sg_result.kind = "script"
    /\ sg_script # NoScript
    /\ Abs(total_scene_duration - sg_target) > Tolerance

FatalSteps == {"validate", "resolve", "extract", "load", "compose", "write"}

\* C5 as stated: video_composer never returns an output path after one of
\* its steps (thumbnail overlay and audio mix included) has failed.
C5_AnyFailureRaises ==
    vc_result.kind = "returned" => vc_failed = {}

\* C5 amended: a failure at validation, scene resolution, segment
\* extraction, clip loading, transition composition or render makes
\* video_composer raise an error carrying that cause and it never returns a
\* path after one; a failure of the thumbnail overlay or the audio mix alone
\* is absorbed and never the cause of the raise.
C5_FatalFailureRaises ==
    /\ vc_result.kind = "returned" => vc_failed \subseteq {"thumbnail", "audio"}
    /\ vc_failed \cap FatalSteps # {}
          => (vc_result.kind = "raised" /\ vc_result.cause \in vc_failed \cap FatalSteps)
    /\ vc_result.kind = "raised" => vc_result.cause \in FatalSteps

\* the render fails after the thumbnail overlay had already failed: the
\* overlay failure was absorbed, the render failure is raised
C5_Witness ==
    /\ vc_result.kind = "raised"
    /\ vc_result.cause = "write"
    /\ "thumbnail" \in vc_failed
    /\ Len(clip_paths) >= 1

\* C6: when a run fails after the summaries and the script have been
\* produced, the caller still receives the summary JSON, the script JSON and
\* the progress log collected up to the failure.
C6_PartialArtifactsReturned ==
    (wf_variant = "adk" /\ wf_ret.kind = "error" /\ wf_script
       /\ wf_videos > 0 /\ Len(video_summaries) = wf_videos)
        => /\ wf_ret.summary_json = "summaries"
           /\ wf_ret.script_json = "script"
           /\ wf_ret.log = progress_messages

\* position of a stage in the order Analyze, Plan-Script, Synthesize-Audio
\* and Select-Frame, Compose-Thumbnail, Compose-Timeline
StageRank(e) ==
    CASE e = "analyze" -> 1
      [] e = "plan" -> 2
      [] e \in {"audio", "frame"} -> 3
      [] e = "thumbnail" -> 4
      [] OTHER -> 5

\* C7: in every run that reaches Done the stages ran in the order Analyze,
\* Plan-Script, Synthesize-Audio and Select-Frame, Compose-Thumbnail,
\* Compose-Timeline: no stage execution precedes one of an earlier stage.
C7_StageOrder ==
    wf_pc = "done"
        => \A a, b \in 1..Len(wf_trace) :
              a < b => StageRank(wf_trace[a]) <= StageRank(wf_trace[b])

ThumbnailStageFailed == wf_failures \cap {"frame", "thumbnail"} # {}

ThumbnailSkipped == Msg("warning", "thumbnail", "Thumbnail generation skipped")

C9_AudioFailureNonFatal ==
    "audio" \in wf_failures
        => /\ wf_generate_music
           /\ wf_music_path = "none"
           /\ wf_cause # "audio"
           /\ wf_compose_args.called => wf_compose_args.music = "none"
           /\ wf_pc = "done" => wf_ret.kind = "ok"

\* audio synthesis failed and the run finished with a video composed
\* without music
C9_Witness ==
    /\ "audio" \in wf_failures
    /\ wf_variant = "adk"
    /\ wf_pc = "done"
    /\ wf_ret.kind = "ok"
    /\ wf_ret.final = "composer"
    /\ wf_compose_args.music = "none"

\* C10: whenever audio synthesis fails, a warning entry recording that
\* failure is in the progress log.
C10_AudioFailureLogged ==
    "audio" \in wf_failures
        => \E k \in 1..Len(progress_messages) :
              /\ progress_messages[k].level \in {"warning", "error"}
              /\ progress_messages[k].stage = "audio"

\* a source video could not be opened: video_summarizer gave its error object
UnopenedVideo ==
    \E k \in 1..Len(video_summaries) : video_summaries[k] = ErrorSummary

\* C11: if a source video cannot be opened as video during Analyze, the run
\* never reaches Done and Plan-Script is never invoked with the summaries
\* that hold a result for that video.
C11_UnopenableVideoFatal ==
    UnopenedVideo
        => /\ wf_pc # "done"
           /\ \A k \in 1..Len(wf_trace) : wf_trace[k] # "plan"

\* C12: called with start_time at or beyond the source duration (and
\* otherwise valid arguments on an openable file), video_clipper does not
\* reject the call: a call that ends without another failure returns a
\* segment covering the last 2 seconds of the clip.
C12_StartBeyondDurationRelocated ==
    (cl_pc \in {"returned", "raised"}
       /\ cl_start_time >= cl_video_duration
       /\ Handle("video", 0) \in DOMAIN cl_handles)
        => /\ cl_result.cause # "start_exceeds_duration"
           /\ cl_result.kind = "returned"
                 => /\ cl_result.start = Max(0, cl_video_duration - TailDuration)
                    /\ cl_result.end = cl_video_duration
                    /\ cl_files # {}

\* C13: when a video_clipper call that opened the source clip has ended, by
\* return or by raise, each handle it opened (source clip, sub-clip,
\* verification clip) has been closed exactly once.
C13_ClipperClosedExactlyOnce ==
    cl_pc \in {"returned", "raised"}
        => \A h \in DOMAIN cl_handles : cl_handles[h] = 1

UnmatchedStringRef(k) ==
    LET ref == vc_script[k].source_video
    IN  /\ ~ref.isInt
        /\ \A j \in 1..Len(video_clips) :
              ClipBasename[j] # ref.name /\ ClipPath[j] # ref.name

\* C15: a string source_video reference that equals neither the basename nor
\* the full path of any supplied clip makes video_composer raise a
\* composition error caused by the failed resolution: the call never gets
\* past that scene, never returns a path, and no segment is extracted for it.
C15_StringRefNotFound ==
    \A k \in 1..Len(vc_script) :
        UnmatchedStringRef(k)
            => /\ \A j \in 1..Len(vc_passed) : vc_passed[j].scene # k
               /\ Len(clip_paths) < k
               /\ vc_pc \in {"validate", "resolve", "raised"}
               /\ vc_pc = "resolve" => vc_i <= k
               /\ (vc_pc = "raised" /\ vc_i = k /\ vc_result.cause # "validate")
                     => vc_result.cause = "resolve"

\* the second scene names nonexistent.mp4: the first segment was extracted,
\* then the call raised at the resolution of the second
C15_Witness ==
    /\ Len(vc_script) = 2
    /\ UnmatchedStringRef(2)
    /\ vc_pc = "raised"
    /\ vc_result = VcResult("raised", "resolve")
    /\ vc_i = 2
    /\ Len(clip_paths) = 1

\* the composition step has run in crossfade mode
CrossfadeComposed == vc_starts # <<>> /\ HasCrossfade(scenes)

\* every scene after the first whose transition_in is "crossfade" starts at
\* its predecessor's end minus the transition duration
CrossfadePlacement ==
    \A k \in 2..Len(vc_starts) :
        scenes[k].transition_in = "crossfade"
            => vc_starts[k] = vc_starts[k - 1] + clip_paths[k - 1].duration
                                - TransitionDuration

\* C16 as stated: in crossfade composition every crossfading scene after the
\* first is placed at its predecessor's end minus 0.5 s, and the final
\* duration is strictly less than the sum of the segment durations.
C16_CrossfadeShortens ==
    CrossfadeComposed
        => /\ CrossfadePlacement
           /\ FinalDuration(vc_starts, SegmentDurations(clip_paths))
                 < SumSeq(SegmentDurations(clip_paths))

\* C16 amended: in crossfade composition every crossfading scene after the
\* first is placed at its predecessor's end minus 0.5 s; the final duration
\* is strictly less than the sum of the segment durations when at least one
\* scene after the first has transition_in "crossfade", and never more than
\* that sum.
C16_CrossfadeOverlap ==
    CrossfadeComposed
        => /\ CrossfadePlacement
           /\ FinalDuration(vc_starts, SegmentDurations(clip_paths))
                 <= SumSeq(SegmentDurations(clip_paths))
           /\ (\E k \in 2..Len(scenes) : scenes[k].transition_in = "crossfade")
                 => FinalDuration(vc_starts, SegmentDurations(clip_paths))
                       < SumSeq(SegmentDurations(clip_paths))

\* a 1.0 s segment followed by a crossfading 1.0 s segment: the second starts
\* at 0.5 s and the result lasts 1.5 s
C16_Witness ==
    /\ vc_pc = "returned"
    /\ Len(vc_starts) = 2
    /\ scenes[2].transition_in = "crossfade"
    /\ clip_paths[1].duration = 1000
    /\ clip_paths[2].duration = 1000
    /\ vc_starts = <<0, 500>>
    /\ FinalDuration(vc_starts, SegmentDurations(clip_paths)) = 1500

\* C17: scenes are composed strictly in script array order: the k-th segment
\* extracted is that of scene k, and on the output timeline scene k + 1
\* never starts earlier than scene k.
C17_ArrayOrder ==
    /\ \A k \in 1..Len(vc_passed) : vc_passed[k].scene = k
    /\ \A k \in 1..(Len(vc_starts) - 1) : vc_starts[k] <= vc_starts[k + 1]

\* lines 189-196: a script passed as a string is parsed into a new object; a
\* script passed as an object is the object the scene loop works on
CallerScript == IF vc_is_str THEN vc_script ELSE scenes

\* C18: the script supplied by the caller is a read-only input: at every
\* point of a video_composer invocation, and after it, the caller's script
\* object equals its value before the call.
C18_ScriptReadOnly == CallerScript = vc_script

\* C19: two pipeline runs executing concurrently against the same temp
\* directory never write to the same artifact path: no default segment,
\* thumbnail or rendered-output path of one run is a path of the other.
C19_UniqueArtifactPaths == ar_paths[1] \cap ar_paths[2] = {}

IsPrefix(s, t) == Len(s) <= Len(t) /\ SubSeq(t, 1, Len(s)) = s

\* C20: the progress log is append-only and ordered. Every step extends the
\* log, and the log last exposed to the caller, by appending entries, never
\* removing or reordering earlier ones; and whatever a run hands its caller
\* (a yielded status, the returned log of a finished or of a failed run)
\* holds every entry emitted up to then.
C20_LogAppendOnly ==
    [][ /\ IsPrefix(progress_messages, progress_messages')
        /\ IsPrefix(wf_ret.log, wf_ret'.log)
        /\ (wf_ret' # wf_ret /\ wf_ret'.kind \in {"yield", "ok", "incomplete", "error"})
              => wf_ret'.log = progress_messages' ]_vars

\* a streaming run whose agent call failed: the last status handed to the
\* caller holds the six entries emitted before the failure, then the error
C20_Witness ==
    /\ wf_variant = "stream"
    /\ wf_pc = "failed"
    /\ wf_cause = "agent"
    /\ wf_ret.kind = "error"
    /\ Len(wf_ret.log) = 7
    /\ wf_ret.log = progress_messages
    /\ wf_ret.log[1] = Msg("info", "input", "Starting workflow...")
    /\ wf_ret.log[7].level = "error"

\* the script returned by the no-credential fallback of
\* video_script_generator (lines 236-267)
FallbackReturned == sg_pc = "done" /\ ~api_key /\ sg_result.kind = "script"

\* C26: every script produced by the fallback path of video_script_generator
\* has a single scene with start_time = 0 and end_time > start_time, and
\* total_duration > 0, for any first summary, one with duration 0 or with no
\* duration field included.
C26_FallbackSceneInvariant ==
    FallbackReturned
        => LET script == sg_result.script
           IN  /\ Len(script.scenes) = 1
               /\ script.scenes[1].start_time = 0
               /\ script.scenes[1].end_time > script.scenes[1].start_time
               /\ script.total_duration > 0

\* C27: when video_composer has raised after extracting one or more scene
\* segments, none of the segment files it created remains on disk.
C27_SegmentsDeletedOnFailure ==
    (vc_pc = "raised" /\ clip_paths # <<>>) => vc_files = {}

\* C28: in crossfade composition every scene is placed at a timeline start
\* greater than or equal to 0, also when the preceding segment is shorter
\* than the 0.5 s transition duration.
C28_CrossfadeStartNonNegative ==
    CrossfadeComposed => \A k \in 1..Len(vc_starts) : vc_starts[k] >= 0

\* C29: the streaming orchestrator's last yield reports success with a
\* non-empty final path only when a final video file exists at that path.
C29_SuccessOnlyWithFinalFile ==
    (wf_variant = "stream" /\ wf_pc = "done" /\ wf_ret.kind = "ok")
        => wf_ret.final \in {"agent", "existing"}

\* music_selector called text_to_sound_effects.convert with api_params
CollaboratorCalled == ms_result \in {"path", "convert_raised", "save_raised"}

\* C21 as stated: for every target_duration, a duration_seconds within
\* [0.5, 30] is sent to the audio collaborator; values above 30 are sent as
\* 30.0 and values at or below 0 as 5.0.
C21_DurationAlwaysInRange ==
    CollaboratorCalled
        => /\ api_params.hasDuration
           /\ 500 <= api_params.duration_seconds
           /\ api_params.duration_seconds <= 30000
           /\ ms_target_duration > 30000 => api_params.duration_seconds = 30000
           /\ ms_target_duration <= 0 => api_params.duration_seconds = 5000

\* C21 amended: a duration_seconds that is sent lies within [0.5, 30]; values
\* above 30 are sent as 30.0, values at or below 0 as 5.0, values within
\* [0.5, 30] unchanged, and for a value above 0 and below 0.5 no
\* duration_seconds is sent at all.
C21_DurationClamped ==
    CollaboratorCalled
        => /\ api_params.hasDuration
                => /\ 500 <= api_params.duration_seconds
                   /\ api_params.duration_seconds <= 30000
           /\ ms_target_duration > 30000
                => api_params.hasDuration /\ api_params.duration_seconds = 30000
           /\ ms_target_duration <= 0
                => api_params.hasDuration /\ api_params.duration_seconds = 5000
           /\ (500 <= ms_target_duration /\ ms_target_duration <= 30000)
                => /\ api_params.hasDuration
                   /\ api_params.duration_seconds = ms_target_duration
           /\ (0 < ms_target_duration /\ ms_target_duration < 500)
                => ~api_params.hasDuration

\* target_duration 50.0 was sent as 30.0 and the call returned a path
C21_Witness ==
    /\ ms_pc = "returned"
    /\ ms_target_duration = 50000
    /\ api_params = [hasDuration |-> TRUE, duration_seconds |-> 30000]

\* C22: video_summarizer never raises when the AI credential is missing: for
\* an openable video it returns a summary whose text says that analysis needs
\* the credential and whose mood_tags is empty; mood_tags ["general"] is
\* returned only when the analysis ran and matched no mood keyword.
C22_NoCredentialSummary ==
    /\ vs_pc \in {"idle", "key", "returned"}
    /\ (vs_pc = "returned" /\ ~vs_api_key /\ vs_result.summary # "could_not_open")
          => /\ vs_result.kind = "summary"
             /\ vs_result.summary = "requires_key"
             /\ vs_result.mood_tags = <<>>
    /\ vs_result.mood_tags = <<"general">>
          => /\ vs_api_key
             /\ vs_result.summary = "analysis"
             /\ detected_moods = <<>>

\* a 4.0 s video summarised without the credential
C22_Witness ==
    /\ vs_pc = "returned"
    /\ ~vs_api_key
    /\ vs_duration = 4000
    /\ vs_result = VsResult("summary", "requires_key", <<>>, 2000)

\* C23: every summary returned by video_summarizer for a video of duration
\* D > 0 has 0 <= thumbnail_timeframe < D, whether the value came from the
\* collaborator's text or from the duration / 2 fallback.
C23_ThumbnailWithinDuration ==
    (vs_pc = "returned" /\ vs_result.kind = "summary" /\ vs_duration > 0)
        => /\ 0 <= vs_result.thumbnail_timeframe
           /\ vs_result.thumbnail_timeframe < vs_duration

\* C24: thumbnail_generator calls the image-generation collaborator at most
\* twice per invocation: the first call carries the response-format hint, the
\* second is made only if the first raised and omits the hint, and when the
\* second raises too the invocation fails with no further call.
C24_AtMostTwoCalls ==
    /\ Len(tg_calls) <= 2
    /\ Len(tg_calls) >= 1 => tg_calls[1].response_modalities
    /\ Len(tg_calls) = 2
          => /\ tg_calls[1].raised
             /\ ~tg_calls[2].response_modalities
             /\ tg_calls[2].raised => (tg_pc = "raised" /\ tg_result = "raised")
    /\ (Len(tg_calls) = 1 /\ tg_calls[1].raised) => tg_pc = "retry"

\* both calls raised and the invocation failed
C24_Witness ==
    /\ tg_calls = << GenerateCall(TRUE, TRUE), GenerateCall(FALSE, TRUE) >>
    /\ tg_pc = "raised"

\* distance of a brightness from the preferred range [100, 200]
BrightnessDistance(b) ==
    IF b < 100 THEN 100 - b ELSE IF b > 200 THEN b - 200 ELSE 0

\* C25: normalized brightness is 1.0 within [100, 200], and for fixed
\* sharpness and contrast a frame whose brightness is closer to the range
\* never scores lower than one farther from it on the same side.
C25_CloserBrightnessScoresHigher ==
    fq_pc = "scored"
        => /\ (100 <= fq_frame.brightness /\ fq_frame.brightness <= 200)
                => NormalizedBrightness(fq_frame.brightness) = 550
           /\ \A b \in 0..255 :
                 (/\ BrightnessDistance(b) >= BrightnessDistance(fq_frame.brightness)
                  /\ (b < 100) = (fq_frame.brightness < 100)
                  /\ (b > 200) = (fq_frame.brightness > 200))
                    => CalculateFrameQuality([fq_frame EXCEPT !.brightness = b])
                          <= quality_score

\* C30: when a subtitle_creator call that loaded the source video has ended,
\* by return or by raise, the source video clip has been closed.
C30_SourceClipClosed ==
    (sc_pc \in {"returned", "raised"} /\ Handle("video", 0) \in DOMAIN sc_handles)
        => sc_handles[Handle("video", 0)] >= 1

\* ===========================================================================
\* Specifications
\* ===========================================================================
InitPlanner == InitSG /\ IdleVC /\ IdleWF /\ IdleRest
NextPlanner ==
    \/ SG_CheckInputs \/ SG_NoKeyFallback \/ SG_Generate \/ SG_Rescale \/ SG_Defaults
SpecPlanner == InitPlanner /\ [][NextPlanner]_vars

InitComposer == InitVC /\ IdleSG /\ IdleWF /\ IdleRest
NextComposer ==
    \/ VC_Validate \/ VC_ResolveScene \/ VC_LoadClip \/ VC_Compose
    \/ VC_Thumbnail \/ VC_Audio \/ VC_Write \/ VC_Cleanup
SpecComposer == InitComposer /\ [][NextComposer]_vars

InitWorkflow == InitWF /\ IdleSG /\ IdleVC /\ IdleRest
NextWorkflow ==
    \/ Run_Start \/ SW_Init \/ SW_AgentRun \/ SW_Analyze \/ SW_Script \/ SW_Music
    \/ VE_Init \/ VE_AgentRun \/ VE_ExtractFrame \/ VE_GenerateThumbnail
    \/ VE_Compose \/ Run_Complete
    \/ FB_Start \/ FB_Analyze \/ FB_Script \/ FB_Music \/ FB_ExtractFrame
    \/ FB_GenerateThumbnail \/ FB_Compose
    \/ ST_Start \/ ST_Invoke \/ ST_Message \/ ST_Compile \/ ST_Final
SpecWorkflow == InitWorkflow /\ [][NextWorkflow]_vars

InitClipper == InitCL /\ IdleSG /\ IdleVC /\ IdleWF /\ IdleAR /\ IdleTL
NextClipper ==
    \/ CL_Validate \/ CL_Open \/ CL_Subclip \/ CL_Write \/ CL_Close \/ CL_Verify
SpecClipper == InitClipper /\ [][NextClipper]_vars

InitArtifacts == InitAR /\ IdleSG /\ IdleVC /\ IdleWF /\ IdleCL /\ IdleTL
NextArtifacts == AR_Tick \/ AR_Thumbnail \/ AR_Clip \/ AR_Compose
SpecArtifacts == InitArtifacts /\ [][NextArtifacts]_vars

InitTools == IdleTL /\ IdleSG /\ IdleVC /\ IdleWF /\ IdleCL /\ IdleAR

NextTools ==
    \/ MS_Call \/ MS_Convert
    \/ VS_Open \/ VS_NoKey \/ VS_Analyze
    \/ TG_Start \/ TG_Generate \/ TG_Retry \/ TG_Extract
    \/ FQ_Score
    \/ SC_Validate \/ SC_Load \/ SC_CheckTimings \/ SC_Compose

SpecTools == InitTools /\ [][NextTools]_vars

====
